---- MODULE Spec2Model ----
(***************************************************************************)
(* A model of the coolify-mcp tool layer (src/src/tools/coolify.ts): the   *)
(* helpers every tool handler is built from, the handlers themselves as    *)
(* steps between their await points, and the upstream API as the source of *)
(* the replies those awaits receive.                                        *)
(*                                                                         *)
(* JavaScript values are tagged records, JavaScript strings are TLA+       *)
(* strings (TLC evaluates Len, SubSeq and \o on them), objects are         *)
(* functions from key strings to values.                                   *)
(***************************************************************************)
EXTENDS Integers, Sequences, FiniteSets, TLC

(***************************************************************************)
(* Bounds of the model.                                                    *)
(***************************************************************************)
\* longest env-var list the upstream returns to upsertEnv
MaxEnvs == 2
\* longest item sequence handed to paginate
MaxLen == 3
\* largest limit handed to paginate
MaxLimit == 4
\* largest offset handed to paginate
MaxOffset == 4
\* deepest nesting of the values handed to redactSecrets
MaxDepth == 2

\* the most lines of a log text handed to redactLogString
MaxLines == 2

(***************************************************************************)
(* JavaScript strings.                                                     *)
(***************************************************************************)
UPPER == "ABCDEFGHIJKLMNOPQRSTUVWXYZ"
LOWER == "abcdefghijklmnopqrstuvwxyz"
DIGITS == "0123456789"

CharAt(s, i) == SubSeq(s, i, i)

\* the first index of character c in s from i on, or 0
IndexIn(c, s, i) ==
  LET found == {j \in i..Len(s) : CharAt(s, j) = c}
  IN IF found = {} THEN 0 ELSE CHOOSE j \in found : \A k \in found : j <= k

LowerChar(c) ==
  LET i == IndexIn(c, UPPER, 1) IN IF i = 0 THEN c ELSE CharAt(LOWER, i)

RECURSIVE toLowerCase(_)
\* letter by letter; the string is halved so that long lines stay shallow
toLowerCase(s) ==
  IF Len(s) = 0 THEN ""
  ELSE IF Len(s) = 1 THEN LowerChar(s)
  ELSE toLowerCase(SubSeq(s, 1, Len(s) \div 2))
         \o toLowerCase(SubSeq(s, Len(s) \div 2 + 1, Len(s)))

IsWhiteSpace(c) == c \in {" ", "\t", "\n", "\r"}

RECURSIVE trimStart(_)
trimStart(s) ==
  IF Len(s) > 0 /\ IsWhiteSpace(CharAt(s, 1))
  THEN trimStart(SubSeq(s, 2, Len(s)))
  ELSE s

RECURSIVE trimEnd(_)
trimEnd(s) ==
  IF Len(s) > 0 /\ IsWhiteSpace(CharAt(s, Len(s)))
  THEN trimEnd(SubSeq(s, 1, Len(s) - 1))
  ELSE s

trim(s) == trimEnd(trimStart(s))

startsWith(s, p) == Len(s) >= Len(p) /\ SubSeq(s, 1, Len(p)) = p

includes(s, p) ==
  \E i \in 1..(Len(s) - Len(p) + 1) : SubSeq(s, i, i + Len(p) - 1) = p

RECURSIVE NatToString(_)
NatToString(n) ==
  IF n < 10 THEN CharAt(DIGITS, n + 1)
  ELSE NatToString(n \div 10) \o CharAt(DIGITS, (n % 10) + 1)

\* String(n) of an integer number
NumberToString(n) == IF n < 0 THEN "-" \o NatToString(0 - n) ELSE NatToString(n)

(***************************************************************************)
(* JavaScript values (the `unknown` the handlers pass around).             *)
(***************************************************************************)
Undef == [t |-> "undefined"]
Null == [t |-> "null"]
Str(s) == [t |-> "string", s |-> s]
Num(n) == [t |-> "number", n |-> n]
Bool(b) == [t |-> "boolean", b |-> b]
Arr(a) == [t |-> "array", a |-> a]
Obj(o) == [t |-> "object", o |-> o]

EmptyObject == Obj([k \in {} |-> Undef])

IsString(v) == v.t = "string"
IsNumber(v) == v.t = "number"
IsArray(v) == v.t = "array"
IsNullish(v) == v.t \in {"undefined", "null"}

\* value.key for a property read that cannot throw (value is not nullish)
Get(v, key) ==
  IF v.t = "object" /\ key \in DOMAIN v.o THEN v.o[key] ELSE Undef

\* `key in value` for an object
HasKey(v, key) == v.t = "object" /\ key \in DOMAIN v.o

\* the truthiness test of `if (x)`, `!x` and `x ? a : b`
Truthy(v) ==
  CASE v.t = "undefined" -> FALSE
    [] v.t = "null" -> FALSE
    [] v.t = "boolean" -> v.b
    [] v.t = "number" -> v.n # 0
    [] v.t = "string" -> Len(v.s) > 0
    [] OTHER -> TRUE

\* a === b
StrictEquals(a, b) ==
  /\ a.t = b.t
  /\ a.t \in {"undefined", "null", "boolean", "number", "string"}
  /\ a = b

\* a ?? b
Nullish(a, b) == IF IsNullish(a) THEN b ELSE a

RECURSIVE ToStringJS(_)
RECURSIVE JoinJS(_, _)
\* Array.prototype.join: null and undefined elements render as ""
JoinJS(a, sep) ==
  IF Len(a) = 0 THEN ""
  ELSE LET first == IF IsNullish(a[1]) THEN "" ELSE ToStringJS(a[1])
       IN IF Len(a) = 1 THEN first
          ELSE first \o sep \o JoinJS(Tail(a), sep)

\* String(v), the conversion a template literal applies
ToStringJS(v) ==
  CASE v.t = "undefined" -> "undefined"
    [] v.t = "null" -> "null"
    [] v.t = "boolean" -> (IF v.b THEN "true" ELSE "false")
    [] v.t = "number" -> NumberToString(v.n)
    [] v.t = "string" -> v.s
    [] v.t = "array" -> JoinJS(v.a, ",")
    [] OTHER -> "[object Object]"

\* a join of plain strings
RECURSIVE JoinStrings(_, _)
JoinStrings(a, sep) ==
  IF Len(a) = 0 THEN ""
  ELSE IF Len(a) = 1 THEN a[1]
  ELSE a[1] \o sep \o JoinStrings(Tail(a), sep)

\* Array.prototype.slice(start, end) with both arguments given
Slice(a, start, end) ==
  LET n == Len(a)
      from == IF start < 0 THEN (IF n + start < 0 THEN 0 ELSE n + start)
              ELSE (IF start > n THEN n ELSE start)
      to == IF end < 0 THEN (IF n + end < 0 THEN 0 ELSE n + end)
            ELSE (IF end > n THEN n ELSE end)
  IN IF to <= from THEN <<>> ELSE SubSeq(a, from + 1, to)

\* JSON.stringify of a value that is not undefined. An object of the model
\* keeps no key order, so its members are written in an arbitrary fixed order.
RECURSIVE JSONStringify(_)
RECURSIVE StringifyItems(_)
RECURSIVE StringifyMembers(_, _)
StringifyItems(a) ==
  IF Len(a) = 0 THEN ""
  ELSE LET first == IF a[1].t = "undefined" THEN "null" ELSE JSONStringify(a[1])
       IN IF Len(a) = 1 THEN first
          ELSE first \o "," \o StringifyItems(Tail(a))

StringifyMembers(o, keys) ==
  IF keys = {} THEN ""
  ELSE LET k == CHOOSE x \in keys : TRUE
           member == "\"" \o k \o "\":" \o JSONStringify(o[k])
       IN IF keys = {k} THEN member
          ELSE member \o "," \o StringifyMembers(o, keys \ {k})

JSONStringify(v) ==
  CASE v.t = "null" -> "null"
    [] v.t = "boolean" -> (IF v.b THEN "true" ELSE "false")
    [] v.t = "number" -> NumberToString(v.n)
    [] v.t = "string" -> "\"" \o v.s \o "\""
    [] v.t = "array" -> "[" \o StringifyItems(v.a) \o "]"
    [] OTHER ->
         "{" \o StringifyMembers(v.o, {k \in DOMAIN v.o : v.o[k].t # "undefined"})
             \o "}"

(***************************************************************************)
(* Configuration (src/src/config.ts) is read once at start-up; the model   *)
(* keeps each flag in a variable which no action changes: allowWrite, and  *)
(* allowUnsafeLogs for the revision that has log modes. The variables      *)
(* after fnOut belong to index.ts: its start-up, and the HTTP requests it  *)
(* serves at the same time.                                                *)
(***************************************************************************)
VARIABLES
  allowWrite,   \* COOLIFY_ALLOW_WRITE
  allowUnsafeLogs,  \* COOLIFY_ALLOW_UNSAFE_LOGS
  pc,           \* "idle", "awaiting" (suspended at an await) or "done"
  tool,         \* name of the tool being invoked
  args,         \* its (schema-valid) arguments
  at,           \* the await the handler is suspended at
  locals,       \* the handler's local variables that live across an await
  requests,     \* upstream requests this invocation has issued, in order
  replies,      \* the upstream's replies to them, in order
  returned,     \* ToolResults the handler has returned
  thrown,       \* errors the handler has thrown
  fnIn,         \* arguments of the pure function under check
  fnOut,        \* its result
  startup,      \* the module body of index.ts: its position and its effects
  replyRoute,   \* the transport the server sends a reply on (set by the build)
  serverTransport,  \* the transport the shared McpServer is connected to
  posts,        \* the POST /mcp requests: stage, captured transport, delivery
  running,      \* the invocation whose handler state pc .. thrown hold
  suspended,    \* the handler state of the other invocations in flight
  envStore,     \* the env vars the upstream holds for the application
  answers       \* the upstream's answers to each invocation, in order

callVars == <<pc, tool, args, at, locals, requests, replies, returned, thrown>>
httpVars == <<replyRoute, serverTransport, posts>>
invocationVars == <<running, suspended, envStore, answers>>
hostVars == <<startup, httpVars, invocationVars>>
vars == <<allowWrite, allowUnsafeLogs, pc, tool, args, at, locals, requests,
          replies, returned, thrown, fnIn, fnOut, hostVars>>

(***************************************************************************)
(* The helpers of src/src/tools/coolify.ts.                                *)
(***************************************************************************)
\* a thrown Error: `name` is the class of the throw site, `message` its text
Err(name, message) == [name |-> name, message |-> message]

\* extractErrorMessage() without the test for a message field
extractErrorMessageStringified(error) ==
  IF error.t = "string" THEN error.s
  ELSE IF error.t \in {"object", "array"} THEN JSONStringify(error)
  ELSE "API request failed"

extractErrorMessage(error) ==
  IF error.t = "string" THEN error.s
  ELSE IF error.t \in {"object", "array"}
  THEN IF HasKey(error, "message")
       THEN ToStringJS(Get(error, "message"))
       ELSE JSONStringify(error)
  ELSE "API request failed"

\* isHtmlResponse() without trim()
isHtmlResponseUntrimmed(value) ==
  IF value.t # "string" THEN FALSE
  ELSE LET trimmed == toLowerCase(value.s)
       IN startsWith(trimmed, "<!doctype html") \/ startsWith(trimmed, "<html")

isHtmlResponse(value) ==
  IF value.t # "string" THEN FALSE
  ELSE LET trimmed == toLowerCase(trim(value.s))
       IN startsWith(trimmed, "<!doctype html") \/ startsWith(trimmed, "<html")

ContextPrefix(context) == IF Len(context) > 0 THEN context \o ": " ELSE ""

\* unwrap(promise, context) once the promise has settled with `reply`:
\* [threw |-> TRUE, error |-> e] or [threw |-> FALSE, data |-> d]
unwrap(reply, context) ==
  IF reply.settled = "rejected"
  THEN [threw |-> TRUE, error |-> Err("Rejected", reply.reason)]
  ELSE IF Truthy(reply.error)
  THEN [threw |-> TRUE,
        error |-> Err("UpstreamError",
                      ContextPrefix(context) \o extractErrorMessage(reply.error))]
  ELSE IF isHtmlResponse(reply.data)
  THEN [threw |-> TRUE,
        error |-> Err("AuthenticationFailure",
                      ContextPrefix(context) \o
                      "Authentication failed. API returned HTML instead of JSON. Please check COOLIFY_TOKEN and COOLIFY_BASE_URL.")]
  ELSE [threw |-> FALSE, data |-> reply.data]

\* toRecord() without the Array.isArray test: an array counts as an object
toRecordArrayAsObject(data) ==
  IF data.t \in {"null", "undefined"} THEN EmptyObject
  ELSE IF data.t \in {"object", "array"} THEN data
  ELSE Obj([k \in {"data"} |-> data])

toRecord(data) ==
  IF data.t \in {"null", "undefined"} THEN EmptyObject
  ELSE IF data.t = "object" THEN data
  ELSE Obj([k \in {"data"} |-> data])

ok(text, data) ==
  [content |-> <<[type |-> "text", text |-> text]>>,
   structuredContent |-> toRecord(data)]

list(text, items) == ok(text, Obj([k \in {"items"} |-> items]))

listWithMeta(text, items, meta) ==
  ok(text, IF Truthy(meta)
           THEN Obj([k \in {"items", "meta"} |->
                       IF k = "items" THEN items ELSE meta])
           ELSE Obj([k \in {"items"} |-> items]))

\* requireWrite() without its test of the flag
requireWriteUnchecked == TRUE

\* requireWrite(): TRUE when it returns, FALSE when it throws
requireWrite == allowWrite

WriteDisabled ==
  Err("CapabilityDenied",
      "Write operations are disabled (COOLIFY_ALLOW_WRITE=false).")

isRecord(value) == value.t = "object"

\* normalizeString() without trim()
normalizeStringUntrimmed(value) == toLowerCase(value)

normalizeString(value) == toLowerCase(trim(value))

RECURSIVE AnyKeyMatches(_, _, _)
\* the for loop of matchesAnyField over keys, in order
AnyKeyMatches(item, keys, expectedValue) ==
  IF Len(keys) = 0 THEN FALSE
  ELSE LET raw == Get(item, keys[1])
       IN IF raw.t = "string" /\ normalizeString(raw.s) = expectedValue
          THEN TRUE
          ELSE IF raw.t = "number" /\ NumberToString(raw.n) = expectedValue
          THEN TRUE
          ELSE AnyKeyMatches(item, Tail(keys), expectedValue)

matchesAnyField(item, keys, expected) ==
  IF ~Truthy(expected) THEN TRUE
  ELSE IF ~isRecord(item) THEN FALSE
  ELSE AnyKeyMatches(item, keys, normalizeString(expected.s))

MathMax(a, b) == IF a >= b THEN a ELSE b

\* paginate() taking limit and offset as given, without Math.max
paginateUnclamped(items, limit, offset) ==
  LET safeOffset == Nullish(offset, Num(0)).n
  IN IF limit.t = "undefined"
     THEN [items |-> Slice(items, safeOffset, Len(items)),
           total |-> Len(items),
           offset |-> safeOffset,
           limit |-> Undef,
           hasMore |-> FALSE]
     ELSE LET safeLimit == limit.n
          IN [items |-> Slice(items, safeOffset, safeOffset + safeLimit),
              total |-> Len(items),
              offset |-> safeOffset,
              limit |-> Num(safeLimit),
              hasMore |-> safeOffset + safeLimit < Len(items)]

\* paginate() with hasMore computed by <= instead of <
paginateHasMoreInclusive(items, limit, offset) ==
  LET safeOffset == MathMax(0, Nullish(offset, Num(0)).n)
  IN IF limit.t = "undefined"
     THEN [items |-> Slice(items, safeOffset, Len(items)),
           total |-> Len(items),
           offset |-> safeOffset,
           limit |-> Undef,
           hasMore |-> FALSE]
     ELSE LET safeLimit == MathMax(1, limit.n)
          IN [items |-> Slice(items, safeOffset, safeOffset + safeLimit),
              total |-> Len(items),
              offset |-> safeOffset,
              limit |-> Num(safeLimit),
              hasMore |-> safeOffset + safeLimit <= Len(items)]

\* paginate(items, limit, offset): limit and offset are numbers or undefined
paginate(items, limit, offset) ==
  LET safeOffset == MathMax(0, Nullish(offset, Num(0)).n)
  IN IF limit.t = "undefined"
     THEN [items |-> Slice(items, safeOffset, Len(items)),
           total |-> Len(items),
           offset |-> safeOffset,
           limit |-> Undef,
           hasMore |-> FALSE]
     ELSE LET safeLimit == MathMax(1, limit.n)
          IN [items |-> Slice(items, safeOffset, safeOffset + safeLimit),
              total |-> Len(items),
              offset |-> safeOffset,
              limit |-> Num(safeLimit),
              hasMore |-> safeOffset + safeLimit < Len(items)]

\* pickFields() handing the source record back whole
pickFieldsWhole(source, fields) == source

pickFields(source, fields) ==
  Obj([k \in {f \in fields : f \in DOMAIN source.o} |-> source.o[k]])

SECRET_MASK == "********"

RESOURCE_TYPE_KEYS == <<"type", "resource_type", "resourceable_type", "kind">>
RESOURCE_STATUS_KEYS == <<"status", "state">>
DATABASE_TYPE_KEYS == <<"type", "database_type", "kind">>

\* SENSITIVE_KEY_PATTERN.test(key)
SensitiveKey(key) ==
  LET k == toLowerCase(key)
  IN \/ includes(k, "pass")
     \/ includes(k, "secret")
     \/ includes(k, "token")
     \/ \E sep \in {"", "_", "-"} :
          \/ includes(k, "api" \o sep \o "key")
          \/ includes(k, "private" \o sep \o "key")
          \/ includes(k, "access" \o sep \o "key")
     \/ includes(k, "credential")
     \/ includes(k, "connection")
     \/ includes(k, "string")
     \/ includes(k, "dsn")

\* URL_KEY_PATTERN.test(key)
UrlKey(key) ==
  LET k == toLowerCase(key)
  IN includes(k, "url") \/ includes(k, "uri") \/ includes(k, "dsn")

\* /:\/\/[^/]+@/.test(value)
hasCredentialInUrl(value) ==
  \E i \in 1..Len(value) : \E j \in (i + 4)..Len(value) :
    /\ SubSeq(value, i, i + 2) = "://"
    /\ CharAt(value, j) = "@"
    /\ \A m \in (i + 3)..(j - 1) : CharAt(value, m) # "/"

shouldRedactField(key, value) ==
  \/ SensitiveKey(key)
  \/ UrlKey(key) /\ value.t = "string" /\ hasCredentialInUrl(value.s)

RECURSIVE redactSecretsLengthHint(_)
\* redactSecrets() with a mask that tells the length of what it hides
redactSecretsLengthHint(value) ==
  IF value.t = "array"
  THEN Arr([i \in 1..Len(value.a) |-> redactSecretsLengthHint(value.a[i])])
  ELSE IF ~isRecord(value) THEN value
  ELSE Obj([k \in DOMAIN value.o |->
              IF shouldRedactField(k, value.o[k])
              THEN Str(SECRET_MASK \o NatToString(Len(ToStringJS(value.o[k]))))
              ELSE redactSecretsLengthHint(value.o[k])])

RECURSIVE redactSecretsObjectsOnly(_)
\* redactSecrets() without the descent into arrays
redactSecretsObjectsOnly(value) ==
  IF ~isRecord(value) THEN value
  ELSE Obj([k \in DOMAIN value.o |->
              IF shouldRedactField(k, value.o[k]) THEN Str(SECRET_MASK)
              ELSE redactSecretsObjectsOnly(value.o[k])])

RECURSIVE redactSecrets(_)
redactSecrets(value) ==
  IF value.t = "array"
  THEN Arr([i \in 1..Len(value.a) |-> redactSecrets(value.a[i])])
  ELSE IF ~isRecord(value) THEN value
  ELSE Obj([k \in DOMAIN value.o |->
              IF shouldRedactField(k, value.o[k]) THEN Str(SECRET_MASK)
              ELSE redactSecrets(value.o[k])])

(***************************************************************************)
(* The tools whose handler makes one upstream call and wraps its data:     *)
(*     [requireWrite();] const data = await unwrap(sdk.op(...), name);     *)
(*     return ok(text, data);                                              *)
(* `write` says whether the handler starts with requireWrite(), `shape`    *)
(* which arguments the input schema has, `op` the sdk function called.     *)
(***************************************************************************)
T(write, shape, op) == [write |-> write, shape |-> shape, op |-> op]

SingleCallTool ==
  [createProject |-> T(TRUE, "body", "createProject"),
   getServer |-> T(FALSE, "uuid", "getServerByUuid"),
   createEnvironment |-> T(TRUE, "uuid+body", "createEnvironment"),
   updateProject |-> T(TRUE, "uuid+body", "updateProjectByUuid"),
   deleteProject |-> T(TRUE, "uuid", "deleteProjectByUuid"),
   createServer |-> T(TRUE, "body", "createServer"),
   validateServer |-> T(FALSE, "uuid", "validateServerByUuid"),
   createPrivateKey |-> T(TRUE, "body", "createPrivateKey"),
   getDeployment |-> T(FALSE, "uuid", "getDeploymentByUuid"),
   getLogs |-> T(FALSE, "uuid+query", "getApplicationLogsByUuid"),
   createEnv |-> T(TRUE, "uuid+body", "createEnvByApplicationUuid"),
   updateEnv |-> T(TRUE, "uuid+body", "updateEnvByApplicationUuid"),
   deleteEnv |-> T(TRUE, "uuid+env_uuid", "deleteEnvByApplicationUuid"),
   deploy |-> T(TRUE, "query", "deployByTagOrUuid"),
   cancelDeployment |-> T(TRUE, "uuid", "cancelDeploymentByUuid"),
   createPublicApplication |-> T(TRUE, "body", "createPublicApplication"),
   createPrivateGithubAppApplication |->
     T(TRUE, "body", "createPrivateGithubAppApplication"),
   createPrivateDeployKeyApplication |->
     T(TRUE, "body", "createPrivateDeployKeyApplication"),
   createDockerfileApplication |-> T(TRUE, "body", "createDockerfileApplication"),
   createDockerImageApplication |-> T(TRUE, "body", "createDockerimageApplication"),
   createDockerComposeApplication |->
     T(TRUE, "body", "createDockercomposeApplication"),
   updateApplication |-> T(TRUE, "uuid+body", "updateApplicationByUuid"),
   deleteApplication |-> T(TRUE, "uuid+query", "deleteApplicationByUuid"),
   startApplication |-> T(TRUE, "uuid+query", "startApplicationByUuid"),
   stopApplication |-> T(TRUE, "uuid", "stopApplicationByUuid"),
   restartApplication |-> T(TRUE, "uuid", "restartApplicationByUuid"),
   createService |-> T(TRUE, "body", "createService")]

SingleCallTools == DOMAIN SingleCallTool

\* the noun of "<Noun> created with UUID: ..." in the create handlers
CreatedNoun ==
  [createProject |-> "Project",
   createEnvironment |-> "Environment",
   createServer |-> "Server",
   createPrivateKey |-> "Private key",
   createPublicApplication |-> "Application",
   createPrivateGithubAppApplication |-> "Application",
   createPrivateDeployKeyApplication |-> "Application",
   createDockerfileApplication |-> "Application",
   createDockerImageApplication |-> "Application",
   createDockerComposeApplication |-> "Application",
   createService |-> "Service"]

\* the status line a single-call handler passes to ok()
ResultText(tl, a, data) ==
  IF tl \in DOMAIN CreatedNoun
  THEN LET uuid == IF isRecord(data) THEN Get(data, "uuid") ELSE Undef
       IN IF Truthy(uuid)
          THEN CreatedNoun[tl] \o " created with UUID: " \o ToStringJS(uuid)
          ELSE CreatedNoun[tl] \o " created."
  ELSE CASE tl = "getServer" -> "Server " \o a.uuid \o " fetched."
         [] tl = "updateProject" -> "Project " \o a.uuid \o " updated."
         [] tl = "deleteProject" -> "Project " \o a.uuid \o " deleted."
         [] tl = "validateServer" -> "Server " \o a.uuid \o " validation started."
         [] tl = "getDeployment" -> "Deployment " \o a.uuid \o " fetched."
         [] tl = "getLogs" -> "Logs fetched."
         [] tl = "createEnv" ->
              "Env var " \o ToStringJS(Get(a.body, "key")) \o " created."
         [] tl = "updateEnv" ->
              "Env var " \o ToStringJS(Get(a.body, "key")) \o " updated."
         [] tl = "deleteEnv" ->
              "Env var " \o a.env_uuid \o " deleted from application "
                \o a.uuid \o "."
         [] tl = "deploy" -> "Deployment triggered."
         [] tl = "cancelDeployment" -> "Deployment " \o a.uuid \o " cancelled."
         [] tl = "updateApplication" -> "Application " \o a.uuid \o " updated."
         [] tl = "deleteApplication" -> "Application " \o a.uuid \o " deleted."
         [] tl = "startApplication" ->
              "Application " \o a.uuid \o " start initiated."
         [] tl = "stopApplication" -> "Application " \o a.uuid \o " stopped."
         [] tl = "restartApplication" -> "Application " \o a.uuid \o " restarted."

\* the data a single-call handler passes to ok()
ResultData(tl, data) ==
  IF tl = "updateApplication" THEN redactSecrets(data) ELSE data

\* the options object the handler passes to the sdk function
SdkOptions(shape, a) ==
  CASE shape = "body" -> [body |-> a.body]
    [] shape = "uuid" -> [path |-> [uuid |-> a.uuid]]
    [] shape = "uuid+body" -> [path |-> [uuid |-> a.uuid], body |-> a.body]
    [] shape = "uuid+query" -> [path |-> [uuid |-> a.uuid], query |-> a.query]
    [] shape = "uuid+env_uuid" ->
         [path |-> [uuid |-> a.uuid, env_uuid |-> a.env_uuid]]
    [] shape = "query" -> [query |-> a.query]

Request(op, options) == [op |-> op, options |-> options]

(***************************************************************************)
(* Inputs: schema-valid arguments, and what the upstream may answer.       *)
(***************************************************************************)
AppUuid == "app1"

ArgsOfShape(shape) ==
  CASE shape = "body" -> {[body |-> Obj([name |-> Str("web")])]}
    [] shape = "uuid" -> {[uuid |-> AppUuid]}
    [] shape = "uuid+body" ->
         {[uuid |-> AppUuid,
           body |-> Obj([key |-> Str("K"), value |-> Str("v")])]}
    [] shape = "uuid+query" -> {[uuid |-> AppUuid, query |-> EmptyObject]}
    [] shape = "uuid+env_uuid" -> {[uuid |-> AppUuid, env_uuid |-> "e1"]}
    [] shape = "query" -> {[query |-> Obj([uuid |-> Str(AppUuid)])]}

HtmlBodies ==
  {Str("<!DOCTYPE html><html><body>Login</body></html>"),
   Str("  \n<HTML><head></head></HTML>")}

\* bodies a 2xx reply may carry
Payloads ==
  {Undef, Null, Str("queued"), Str(""), Num(7), Bool(TRUE),
   Arr(<<>>), Arr(<<Obj([uuid |-> Str("u1")]), Num(1)>>),
   EmptyObject,
   Obj([uuid |-> Str("u1"), name |-> Str("web")]),
   Obj([message |-> Str("Deployment request queued.")]),
   Obj([name |-> Str("web"), api_key |-> Str("abc123"),
        db_url |-> Str("postgres://user:pw@host/db")])}
    \cup HtmlBodies

\* the `error` a failed request carries
ErrorValues ==
  {Str("Not found"),
   Obj([message |-> Str("Unauthenticated.")]),
   Obj([code |-> Num(500)])}

Fulfilled(data, error) == [settled |-> "fulfilled", data |-> data, error |-> error]
Rejected(reason) == [settled |-> "rejected", reason |-> reason]

FailureReplies ==
  {Fulfilled(Undef, e) : e \in ErrorValues} \cup {Rejected("fetch failed")}

Replies == {Fulfilled(d, Undef) : d \in Payloads} \cup FailureReplies

NoArgs == [none |-> TRUE]
NoLocals == [none |-> TRUE]
NoValue == [none |-> TRUE]

(***************************************************************************)
(* The handlers, one action per run between two await points.              *)
(***************************************************************************)
\* return result;
Return(result) ==
  /\ returned' = Append(returned, result)
  /\ pc' = "done"
  /\ at' = "end"
  /\ UNCHANGED thrown

\* an error that is caught and dropped: the handler ends without an outcome
ThrowSwallowed(error) ==
  /\ pc' = "done"
  /\ at' = "end"
  /\ UNCHANGED <<returned, thrown>>

\* throw error;
Throw(error) ==
  /\ thrown' = Append(thrown, error)
  /\ pc' = "done"
  /\ at' = "end"
  /\ UNCHANGED returned

\* await unwrap(sdk.op(options), ...): the request leaves, the handler waits
Await(op, options, where) ==
  /\ requests' = Append(requests, Request(op, options))
  /\ pc' = "awaiting"
  /\ at' = where
  /\ UNCHANGED <<returned, thrown>>

\* a single-call handler from its entry to its await
InvokeSingleCall(tl, a) ==
  /\ pc = "idle"
  /\ tool' = tl
  /\ args' = a
  /\ IF SingleCallTool[tl].write /\ ~requireWrite
     THEN Throw(WriteDisabled) /\ UNCHANGED requests
     ELSE Await(SingleCallTool[tl].op,
                SdkOptions(SingleCallTool[tl].shape, a), "call")
  /\ UNCHANGED <<hostVars, allowWrite, allowUnsafeLogs, locals, replies, fnIn, fnOut>>

\* a single-call handler from its await to its end
ResumeSingleCall(reply) ==
  /\ pc = "awaiting"
  /\ tool \in SingleCallTools
  /\ replies' = Append(replies, reply)
  /\ LET r == unwrap(reply, tool)
     IN IF r.threw
        THEN Throw(r.error)
        ELSE Return(ok(ResultText(tool, args, r.data), ResultData(tool, r.data)))
  /\ UNCHANGED <<hostVars, allowWrite, allowUnsafeLogs, tool, args, locals, requests, fnIn, fnOut>>

(***************************************************************************)
(* upsertEnv: read the application's env vars, then create or update.      *)
(***************************************************************************)
\* schema-valid arguments of upsertEnv: key is a non-empty string, value a
\* string, is_preview an optional boolean
UpsertArgs ==
  {[uuid |-> AppUuid, key |-> Str("K"), value |-> Str("v"), is_preview |-> p] :
     p \in {Undef, Bool(FALSE), Bool(TRUE)}}

\* an env var record as the upstream lists it; a field may be missing
EnvVar(uuid, key, isPreview) ==
  Obj([k \in ({"key"} \cup (IF uuid = Undef THEN {} ELSE {"uuid"})
                     \cup (IF isPreview = Undef THEN {} ELSE {"is_preview"})) |->
         IF k = "key" THEN key ELSE IF k = "uuid" THEN uuid ELSE isPreview])

EnvEntries ==
  {EnvVar(Str("e1"), Str("K"), Bool(FALSE)),
   EnvVar(Str("e2"), Str("K"), Bool(FALSE)),
   EnvVar(Str("e3"), Str("K"), Bool(TRUE)),
   EnvVar(Undef, Str("K"), Bool(FALSE)),
   EnvVar(Str("e5"), Str("J"), Bool(FALSE)),
   EnvVar(Str("e6"), Str("K"), Undef)}

EnvLists == UNION {[1..n -> EnvEntries] : n \in 0..MaxEnvs}

\* what the upstream may answer to the list read of upsertEnv
EnvListReplies ==
  {Fulfilled(Arr(l), Undef) : l \in EnvLists} \cup Replies

\* the payload without the default of is_preview
UpsertPayloadNoDefault(a) ==
  Obj([k \in ({"key", "value"} \cup
               (IF a.is_preview = Undef THEN {} ELSE {"is_preview"})) |->
         IF k = "key" THEN a.key
         ELSE IF k = "value" THEN a.value ELSE a.is_preview])

\* const payload = { key, ...body }; is_preview defaults to false
UpsertPayload(a) ==
  LET given == Obj([k \in ({"key", "value"} \cup
                            (IF a.is_preview = Undef THEN {} ELSE {"is_preview"})) |->
                      IF k = "key" THEN a.key
                      ELSE IF k = "value" THEN a.value ELSE a.is_preview])
  IN IF Get(given, "is_preview") = Undef
     THEN Obj([k \in DOMAIN given.o \cup {"is_preview"} |->
                 IF k = "is_preview" THEN Bool(FALSE) ELSE given.o[k]])
     ELSE given

\* the filter by key alone, without the filter by is_preview
UpsertMatchesByKeyOnly(envs, key, payload) ==
  SelectSeq(envs, LAMBDA env : StrictEquals(Get(env, "key"), key))

\* envs.filter(key).filter(is_preview)
UpsertMatches(envs, key, payload) ==
  LET byKey == SelectSeq(envs, LAMBDA env : StrictEquals(Get(env, "key"), key))
  IN SelectSeq(byKey, LAMBDA env :
                 StrictEquals(Get(env, "is_preview"), Get(payload, "is_preview")))

\* the options text naming the first match only
UpsertOptionsFirstOnly(matches) ==
  ToStringJS(Nullish(Get(matches[1], "uuid"), Str("unknown")))
    \o " (is_preview="
    \o ToStringJS(Nullish(Get(matches[1], "is_preview"), Str("unknown")))
    \o ")"

\* the `options` text of the multiple-matches error
UpsertOptions(matches) ==
  JoinStrings([i \in 1..Len(matches) |->
                 ToStringJS(Nullish(Get(matches[i], "uuid"), Str("unknown")))
                   \o " (is_preview="
                   \o ToStringJS(Nullish(Get(matches[i], "is_preview"),
                                         Str("unknown")))
                   \o ")"],
              ", ")

MultipleEnvs(key, payload, matches) ==
  Err("AmbiguousState",
      "upsertEnv: Multiple envs found for key " \o ToStringJS(key)
        \o " with is_preview=" \o ToStringJS(Get(payload, "is_preview"))
        \o ". Options: " \o UpsertOptions(matches))

\* the two calls of the non-array path exchanged, and the catch block
\* repeating the update
FallbackTryCreate == "createEnvByApplicationUuid"
FallbackCatchRetry == "updateEnvByApplicationUuid"

\* the try block of the non-array path calls update, its catch block create
FallbackTryOp == "updateEnvByApplicationUuid"
FallbackCatchOp == "createEnvByApplicationUuid"

UpsertWrite(op, where) ==
  Await(op, [path |-> [uuid |-> args.uuid], body |-> locals.payload], where)

\* upsertEnv from its entry to the await of the list read
InvokeUpsertEnv(a) ==
  /\ pc = "idle"
  /\ tool' = "upsertEnv"
  /\ args' = a
  /\ IF ~requireWrite
     THEN Throw(WriteDisabled) /\ UNCHANGED <<requests, locals>>
     ELSE IF a.value = Undef
     THEN /\ Throw(Err("ValidationError", "upsertEnv: value is required."))
          /\ UNCHANGED <<requests, locals>>
     ELSE /\ locals' = [payload |-> UpsertPayload(a), envs |-> Undef]
          /\ Await("listEnvsByApplicationUuid", [path |-> [uuid |-> a.uuid]],
                   "list")
  /\ UNCHANGED <<hostVars, allowWrite, allowUnsafeLogs, replies, fnIn, fnOut>>

\* upsertEnv from the list read to the corrective call (or the error)
UpsertAfterList(reply) ==
  /\ pc = "awaiting" /\ tool = "upsertEnv" /\ at = "list"
  /\ replies' = Append(replies, reply)
  /\ LET r == unwrap(reply, "upsertEnv")
     IN IF r.threw
        THEN Throw(r.error) /\ UNCHANGED <<requests, locals>>
        ELSE /\ locals' = [locals EXCEPT !.envs = r.data]
             /\ IF IsArray(r.data)
                THEN LET matches ==
                           UpsertMatches(r.data.a, args.key, locals.payload)
                     IN IF Len(matches) > 1
                        THEN /\ Throw(MultipleEnvs(args.key, locals.payload,
                                                   matches))
                             /\ UNCHANGED requests
                        ELSE IF Len(matches) > 0
                        THEN UpsertWrite("updateEnvByApplicationUuid", "update")
                        ELSE UpsertWrite("createEnvByApplicationUuid", "create")
                ELSE UpsertWrite(FallbackTryOp, "fallbackUpdate")
  /\ UNCHANGED <<hostVars, allowWrite, allowUnsafeLogs, tool, args, fnIn, fnOut>>

\* upsertEnv after the update of the array path
UpsertAfterUpdate(reply) ==
  /\ pc = "awaiting" /\ tool = "upsertEnv" /\ at = "update"
  /\ replies' = Append(replies, reply)
  /\ LET r == unwrap(reply, "upsertEnv:update")
     IN IF r.threw
        THEN Throw(r.error)
        ELSE Return(ok("Env var " \o ToStringJS(args.key) \o " updated.", r.data))
  /\ UNCHANGED <<hostVars, allowWrite, allowUnsafeLogs, tool, args, locals, requests, fnIn, fnOut>>

\* upsertEnv after a create, of the array path or of the catch block
UpsertAfterCreate(reply) ==
  /\ pc = "awaiting" /\ tool = "upsertEnv" /\ at \in {"create", "fallbackCreate"}
  /\ replies' = Append(replies, reply)
  /\ LET r == unwrap(reply, "upsertEnv:create")
     IN IF r.threw
        THEN Throw(r.error)
        ELSE Return(ok("Env var " \o ToStringJS(args.key) \o " created.", r.data))
  /\ UNCHANGED <<hostVars, allowWrite, allowUnsafeLogs, tool, args, locals, requests, fnIn, fnOut>>

\* upsertEnv after the update in the try block: a failure is caught and the
\* catch block creates
UpsertAfterFallbackUpdate(reply) ==
  /\ pc = "awaiting" /\ tool = "upsertEnv" /\ at = "fallbackUpdate"
  /\ replies' = Append(replies, reply)
  /\ LET r == unwrap(reply, "upsertEnv:update")
     IN IF r.threw
        THEN UpsertWrite(FallbackCatchOp, "fallbackCreate")
        ELSE /\ Return(ok("Env var " \o ToStringJS(args.key) \o " updated.",
                          r.data))
             /\ UNCHANGED requests
  /\ UNCHANGED <<hostVars, allowWrite, allowUnsafeLogs, tool, args, locals, fnIn, fnOut>>

(***************************************************************************)
(* The read tools: one upstream call, then shaping of its data.            *)
(***************************************************************************)
\* the values whose JSON text the upstream may send inside a string; every
\* other string among the replies of the model is not JSON
JSONValues ==
  {Arr(<<Obj([uuid |-> Str("u1")])>>),
   Obj([items |-> Arr(<<Num(7)>>)]),
   Num(7)}

\* JSON.parse(text): the value, or a SyntaxError
JSONParse(text) ==
  IF \E v \in JSONValues : JSONStringify(v) = text
  THEN [threw |-> FALSE,
        value |-> CHOOSE v \in JSONValues : JSONStringify(v) = text]
  ELSE [threw |-> TRUE]

parseMaybeJson(value) ==
  IF value.t # "string" THEN value
  ELSE LET r == JSONParse(value.s)
       IN IF r.threw THEN value ELSE r.value

\* an array, or null
normalizeItems(value) ==
  LET parsed == parseMaybeJson(value)
  IN IF IsArray(parsed) THEN parsed
     ELSE IF isRecord(parsed) /\ IsArray(Get(parsed, "items"))
     THEN Get(parsed, "items")
     ELSE Null

summarizeResource(item) ==
  IF ~isRecord(item) THEN item
  ELSE LET summary == pickFields(item, {"id", "name", "status", "type"})
       IN IF DOMAIN summary.o # {} THEN summary ELSE item

maskEnvValue(value) == IF IsNullish(value) THEN value ELSE Str(SECRET_MASK)

maskEnvVar(item) ==
  IF ~isRecord(item) THEN item
  ELSE LET hasValue == \/ Get(item, "value") # Undef
                       \/ Get(item, "real_value") # Undef
       IN Obj([k \in DOMAIN item.o \cup {"value", "real_value"}
                       \cup (IF hasValue THEN {"is_secret"} ELSE {}) |->
                 IF k = "is_secret" /\ hasValue THEN Bool(TRUE)
                 ELSE IF k = "value" THEN maskEnvValue(Get(item, "value"))
                 ELSE IF k = "real_value"
                 THEN maskEnvValue(Get(item, "real_value"))
                 ELSE item.o[k]])

summarizeApplication(item) ==
  IF ~isRecord(item) THEN item
  ELSE LET summary == pickFields(item, {"id", "uuid", "name", "status", "fqdn"})
       IN IF DOMAIN summary.o # {} THEN summary ELSE item

summarizeDatabase(item) ==
  IF ~isRecord(item) THEN item
  ELSE LET summary == pickFields(item, {"id", "uuid", "name", "status", "type",
                                        "database_type", "host", "port"})
       IN IF DOMAIN summary.o # {} THEN summary ELSE item

\* (item) => isRecord(item) ? pickFields(item, fields) : item
PickOrKeep(item, fields) ==
  IF ~isRecord(item) THEN item ELSE pickFields(item, fields)

\* { total: page.total, offset: page.offset, limit: page.limit,
\*   hasMore: page.hasMore }
PageMeta(page) ==
  Obj([total |-> Num(page.total), offset |-> Num(page.offset),
       limit |-> page.limit, hasMore |-> Bool(page.hasMore)])

\* const page = paginate(items, limit, offset);
\* return listWithMeta(text, page.items, {...});
Paged(text, items, a) ==
  LET page == paginate(items, a.limit, a.offset)
  IN listWithMeta(text, Arr(page.items), PageMeta(page))

\* const items = Array.isArray(data) ? data : [];
ArrayOrEmpty(data) == IF IsArray(data) THEN data.a ELSE <<>>
\* Each handler below is the part of the tool's handler that follows its
\* await: `a` holds the arguments, `data` what unwrap() returned.
listResources(a, data) ==
  LET items == normalizeItems(data)
  IN IF ~Truthy(items)
     THEN list("Resources fetched.", parseMaybeJson(data))
     ELSE LET filtered ==
                SelectSeq(items.a, LAMBDA item :
                  /\ matchesAnyField(item, RESOURCE_TYPE_KEYS, a.type)
                  /\ matchesAnyField(item, RESOURCE_STATUS_KEYS, a.status))
              summarized ==
                IF Truthy(a.summary)
                THEN [i \in 1..Len(filtered) |-> summarizeResource(filtered[i])]
                ELSE filtered
          IN Paged("Resources fetched.", summarized, a)

listProjects(a, data) == Paged("Projects fetched.", ArrayOrEmpty(data), a)

listServers(a, data) ==
  LET items == ArrayOrEmpty(data)
      useSummary == Nullish(a.summary, Bool(TRUE))
      summarized ==
        IF Truthy(useSummary)
        THEN [i \in 1..Len(items) |->
                PickOrKeep(items[i], {"id", "uuid", "name", "ip", "user",
                                      "port", "proxy_type"})]
        ELSE items
  IN Paged("Servers fetched.", summarized, a)

listEnvironments(a, data) ==
  LET items == ArrayOrEmpty(data)
  IN listWithMeta("Environments for project " \o a.uuid \o " fetched.",
                  Arr(items), Obj([total |-> Num(Len(items))]))

listPrivateKeys(a, data) ==
  LET items == ArrayOrEmpty(data)
      summarized ==
        [i \in 1..Len(items) |->
           PickOrKeep(items[i], {"id", "uuid", "name", "description",
                                 "is_git_related"})]
  IN Paged("Private keys fetched.", summarized, a)

listGithubApps(a, data) ==
  LET items == ArrayOrEmpty(data)
      summarized ==
        [i \in 1..Len(items) |->
           PickOrKeep(items[i], {"id", "uuid", "name", "organization", "app_id",
                                 "installation_id", "is_public"})]
  IN Paged("GitHub Apps fetched.", summarized, a)

listApplications(a, data) ==
  LET items == normalizeItems(data)
  IN IF ~Truthy(items)
     THEN list("Applications fetched.", redactSecrets(parseMaybeJson(data)))
     ELSE LET useSummary == Nullish(a.summary, Bool(TRUE))
              summarized ==
                IF Truthy(useSummary)
                THEN [i \in 1..Len(items.a) |-> summarizeApplication(items.a[i])]
                ELSE items.a
              redacted == redactSecrets(Arr(summarized))
          IN Paged("Applications fetched.", redacted.a, a)

\* listDatabases() summarizing before it filters
listDatabasesSummarizeFirst(a, data) ==
  LET items == normalizeItems(data)
  IN IF ~Truthy(items)
     THEN list("Databases fetched.", parseMaybeJson(data))
     ELSE LET useSummary == Nullish(a.summary, Bool(TRUE))
              summarized ==
                IF Truthy(useSummary)
                THEN [i \in 1..Len(items.a) |-> summarizeDatabase(items.a[i])]
                ELSE items.a
              filtered ==
                SelectSeq(summarized, LAMBDA item :
                  matchesAnyField(item, DATABASE_TYPE_KEYS, a.type))
              sanitized ==
                IF Truthy(a.showSecrets) THEN filtered
                ELSE [i \in 1..Len(filtered) |-> redactSecrets(filtered[i])]
              page == paginate(sanitized, a.limit, a.offset)
          IN listWithMeta("Databases fetched.", Arr(page.items),
               Obj([total |-> Num(page.total), offset |-> Num(page.offset),
                    limit |-> page.limit, hasMore |-> Bool(page.hasMore),
                    secretsMasked |-> Bool(~Truthy(a.showSecrets))]))

listDatabases(a, data) ==
  LET items == normalizeItems(data)
  IN IF ~Truthy(items)
     THEN list("Databases fetched.", parseMaybeJson(data))
     ELSE LET filtered ==
                SelectSeq(items.a, LAMBDA item :
                  matchesAnyField(item, DATABASE_TYPE_KEYS, a.type))
              useSummary == Nullish(a.summary, Bool(TRUE))
              summarized ==
                IF Truthy(useSummary)
                THEN [i \in 1..Len(filtered) |-> summarizeDatabase(filtered[i])]
                ELSE filtered
              sanitized ==
                IF Truthy(a.showSecrets) THEN summarized
                ELSE [i \in 1..Len(summarized) |-> redactSecrets(summarized[i])]
              page == paginate(sanitized, a.limit, a.offset)
          IN listWithMeta("Databases fetched.", Arr(page.items),
               Obj([total |-> Num(page.total), offset |-> Num(page.offset),
                    limit |-> page.limit, hasMore |-> Bool(page.hasMore),
                    secretsMasked |-> Bool(~Truthy(a.showSecrets))]))

listDeployments(a, data) ==
  LET items == normalizeItems(data)
  IN IF ~Truthy(items)
     THEN list("Running deployments fetched.", parseMaybeJson(data))
     ELSE Paged("Running deployments fetched.", items.a, a)

listEnvs(a, envs) ==
  IF Truthy(a.showSecrets)
  THEN listWithMeta("Env vars for " \o a.uuid \o
                      " fetched. WARNING: showSecrets=true returns plaintext secrets.",
                    envs, Obj([showSecrets |-> Bool(TRUE)]))
  ELSE IF ~IsArray(envs)
  THEN listWithMeta("Env vars for " \o a.uuid \o " fetched.", envs,
                    Obj([secretsMasked |-> Bool(TRUE)]))
  ELSE listWithMeta("Env vars for " \o a.uuid \o
                      " fetched. Secrets masked by default.",
                    Arr([i \in 1..Len(envs.a) |-> maskEnvVar(envs.a[i])]),
                    Obj([secretsMasked |-> Bool(TRUE)]))

listAppDeployments(a, data) ==
  LET items == Nullish(normalizeItems(data), parseMaybeJson(data))
  IN listWithMeta("Deployments for " \o a.uuid \o " fetched.", items,
                  EmptyObject)

\* the data getApplication hands to ok() in its three return statements
getApplicationData(a, data) ==
  LET applyRedaction == ~Truthy(a.showSecrets)
  IN IF ~Truthy(a.fields) \/ Len(a.fields.a) = 0
     THEN (IF applyRedaction THEN redactSecrets(data) ELSE data)
     ELSE IF ~isRecord(data) THEN data
     ELSE LET picked ==
                pickFields(data, {a.fields.a[i].s : i \in 1..Len(a.fields.a)})
          IN IF applyRedaction THEN redactSecrets(picked) ELSE picked

getApplication(a, data) ==
  ok("Application " \o a.uuid \o " fetched.", getApplicationData(a, data))

\* the data getDatabase hands to ok()
getDatabaseData(a, data) ==
  IF Truthy(a.showSecrets) THEN data ELSE redactSecrets(data)

getDatabase(a, data) ==
  IF Truthy(a.showSecrets)
  THEN ok("Database " \o a.uuid \o " fetched.", getDatabaseData(a, data))
  ELSE ok("Database " \o a.uuid \o " fetched. Secrets masked by default.",
          getDatabaseData(a, data))

listServices(a, data) ==
  LET items == ArrayOrEmpty(data)
      useSummary == Nullish(a.summary, Bool(TRUE))
      summarized ==
        IF Truthy(useSummary)
        THEN [i \in 1..Len(items) |->
                PickOrKeep(items[i], {"id", "uuid", "name", "status",
                                      "server_id"})]
        ELSE items
      redacted == redactSecrets(Arr(summarized))
  IN Paged("Services fetched.", redacted.a, a)

\* the sdk function each read tool calls, and whether it takes the uuid
ReadTool ==
  [listResources |-> [op |-> "listResources", shape |-> "none"],
   listProjects |-> [op |-> "listProjects", shape |-> "none"],
   listServers |-> [op |-> "listServers", shape |-> "none"],
   listEnvironments |-> [op |-> "getEnvironments", shape |-> "uuid"],
   listPrivateKeys |-> [op |-> "listPrivateKeys", shape |-> "none"],
   listGithubApps |-> [op |-> "listGithubApps", shape |-> "none"],
   listApplications |-> [op |-> "listApplications", shape |-> "none"],
   listDatabases |-> [op |-> "listDatabases", shape |-> "none"],
   listDeployments |-> [op |-> "listDeployments", shape |-> "none"],
   listEnvs |-> [op |-> "listEnvsByApplicationUuid", shape |-> "uuid"],
   listAppDeployments |-> [op |-> "listDeploymentsByAppUuid",
                           shape |-> "uuid+query"],
   getApplication |-> [op |-> "getApplicationByUuid", shape |-> "uuid"],
   getDatabase |-> [op |-> "getDatabaseByUuid", shape |-> "uuid"],
   listServices |-> [op |-> "listServices", shape |-> "none"]]

ReadTools == DOMAIN ReadTool

\* sdk.op() without an options object
NoOptions == [none |-> TRUE]

ReadOptions(shape, a) ==
  IF shape = "none" THEN NoOptions ELSE SdkOptions(shape, a)

\* what the handler of a read tool returns once unwrap() has returned `data`
ReadResult(tl, a, data) ==
  CASE tl = "listResources" -> listResources(a, data)
    [] tl = "listProjects" -> listProjects(a, data)
    [] tl = "listServers" -> listServers(a, data)
    [] tl = "listEnvironments" -> listEnvironments(a, data)
    [] tl = "listPrivateKeys" -> listPrivateKeys(a, data)
    [] tl = "listGithubApps" -> listGithubApps(a, data)
    [] tl = "listApplications" -> listApplications(a, data)
    [] tl = "listDatabases" -> listDatabases(a, data)
    [] tl = "listDeployments" -> listDeployments(a, data)
    [] tl = "listEnvs" -> listEnvs(a, data)
    [] tl = "listAppDeployments" -> listAppDeployments(a, data)
    [] tl = "getApplication" -> getApplication(a, data)
    [] tl = "getDatabase" -> getDatabase(a, data)
    [] tl = "listServices" -> listServices(a, data)

\* schema-valid page windows: limit >= 1 and offset >= 0, both optional
PageArgs ==
  {[limit |-> Undef, offset |-> Undef],
   [limit |-> Num(1), offset |-> Undef],
   [limit |-> Num(2), offset |-> Num(1)]}

\* schema-valid arguments of the read tools
ReadArgs(tl) ==
  CASE tl = "listResources" ->
         {[limit |-> p.limit, offset |-> p.offset, summary |-> s,
           type |-> f.type, status |-> f.status] :
            p \in PageArgs, s \in {Undef, Bool(TRUE)},
            f \in {[type |-> Undef, status |-> Undef],
                   [type |-> Str(" Application"), status |-> Str("")],
                   [type |-> Undef, status |-> Str("running")]}}
    [] tl \in {"listProjects", "listPrivateKeys", "listGithubApps",
               "listDeployments"} -> PageArgs
    [] tl \in {"listServers", "listApplications", "listServices"} ->
         {[limit |-> p.limit, offset |-> p.offset, summary |-> s] :
            p \in PageArgs, s \in {Undef, Bool(FALSE)}}
    [] tl = "listDatabases" ->
         {[limit |-> p.limit, offset |-> p.offset, type |-> ty,
           showSecrets |-> sh, summary |-> s] :
            p \in PageArgs, ty \in {Undef, Str("postgresql")},
            sh \in {Undef, Bool(TRUE)}, s \in {Undef, Bool(FALSE)}}
    [] tl = "listEnvironments" -> {[uuid |-> AppUuid]}
    [] tl \in {"listEnvs", "getDatabase"} ->
         {[uuid |-> AppUuid, showSecrets |-> sh] :
            sh \in {Undef, Bool(FALSE), Bool(TRUE)}}
    [] tl = "listAppDeployments" ->
         {[uuid |-> AppUuid, query |-> q] :
            q \in {EmptyObject, Obj([skip |-> Num(0), take |-> Num(1)])}}
    [] tl = "getApplication" ->
         {[uuid |-> AppUuid, fields |-> f, showSecrets |-> sh] :
            f \in {Undef, Arr(<<Str("name"), Str("api_key"), Str("fqdn")>>)},
            sh \in {Undef, Bool(TRUE)}}

\* records the upstream lists: resources, databases, env vars, keys
ListedRecords ==
  {Obj([id |-> Num(1), uuid |-> Str("u1"), name |-> Str("web"),
        type |-> Str("application"), status |-> Str("running"),
        private_key |-> Str("-----BEGIN KEY-----")]),
   Obj([uuid |-> Str("u2"), name |-> Str("db"),
        database_type |-> Str("PostgreSQL"),
        postgres_password |-> Str("pw"),
        internal_db_url |-> Str("postgres://user:pw@db:5432/app")]),
   Obj([key |-> Str("K"), value |-> Str("v"), real_value |-> Null]),
   Obj([token |-> Str("t0k")]),
   Obj([name |-> Str("pg"), kind |-> Str("postgresql"),
        state |-> Str("running"), password |-> Str("pw")])}

\* bodies a 2xx reply to a read may carry besides Payloads
ListPayloads ==
  {Arr(<<r1, r2>>) : r1, r2 \in ListedRecords}
    \cup {Arr(<<r, Num(1), Null>>) : r \in ListedRecords}
    \cup {Obj([items |-> Arr(<<r>>)]) : r \in ListedRecords}
    \cup {Str("[{\"uuid\":\"u1\"}]"), Str("{\"items\":[7]}"), Str("7")}

ReadReplies == Replies \cup {Fulfilled(d, Undef) : d \in ListPayloads}

\* the handler of a read tool from its entry to its await
InvokeRead(tl, a) ==
  /\ pc = "idle"
  /\ tool' = tl
  /\ args' = a
  /\ Await(ReadTool[tl].op, ReadOptions(ReadTool[tl].shape, a), "call")
  /\ UNCHANGED <<hostVars, allowWrite, allowUnsafeLogs, locals, replies, fnIn, fnOut>>

\* the handler of a read tool from its await to its end
ResumeRead(reply) ==
  /\ pc = "awaiting"
  /\ tool \in ReadTools
  /\ replies' = Append(replies, reply)
  /\ LET r == unwrap(reply, tool)
     IN IF r.threw
        THEN Throw(r.error)
        ELSE Return(ReadResult(tool, args, r.data))
  /\ UNCHANGED <<hostVars, allowWrite, allowUnsafeLogs, tool, args, locals, requests, fnIn, fnOut>>

\* the call is over; the server is ready for the next one
\* one invocation at a time over stdio: no start-up in progress, no POST,
\* nothing suspended, no upstream store
NoHttp ==
  /\ replyRoute = "captured"
  /\ serverTransport = 0
  /\ posts = <<>>

OneInvocation ==
  /\ running = 1
  /\ suspended = <<>>
  /\ envStore = <<>>
  /\ answers = <<>>

NoHost == startup = NoValue /\ NoHttp /\ OneInvocation

NextCall ==
  /\ pc = "done"
  /\ pc' = "idle"
  /\ tool' = ""
  /\ args' = NoArgs
  /\ at' = "start"
  /\ locals' = NoLocals
  /\ requests' = <<>>
  /\ replies' = <<>>
  /\ returned' = <<>>
  /\ thrown' = <<>>
  /\ UNCHANGED <<hostVars, allowWrite, allowUnsafeLogs, fnIn, fnOut>>

Init ==
  /\ allowWrite \in BOOLEAN
  /\ allowUnsafeLogs = FALSE
  /\ NoHost
  /\ pc = "idle"
  /\ tool = ""
  /\ args = NoArgs
  /\ at = "start"
  /\ locals = NoLocals
  /\ requests = <<>>
  /\ replies = <<>>
  /\ returned = <<>>
  /\ thrown = <<>>
  /\ fnIn = NoValue
  /\ fnOut = NoValue

Next ==
  \/ \E tl \in SingleCallTools :
       \E a \in ArgsOfShape(SingleCallTool[tl].shape) : InvokeSingleCall(tl, a)
  \/ \E reply \in Replies : ResumeSingleCall(reply)
  \/ \E tl \in ReadTools : \E a \in ReadArgs(tl) : InvokeRead(tl, a)
  \/ \E reply \in ReadReplies : ResumeRead(reply)
  \/ \E a \in UpsertArgs : InvokeUpsertEnv(a)
  \/ \E reply \in EnvListReplies : UpsertAfterList(reply)
  \/ \E reply \in Replies : UpsertAfterUpdate(reply)
  \/ \E reply \in Replies : UpsertAfterCreate(reply)
  \/ \E reply \in Replies : UpsertAfterFallbackUpdate(reply)
  \/ NextCall

Spec == Init /\ [][Next]_vars

(***************************************************************************)
(* Pure functions are checked on their own: the initial state holds the    *)
(* arguments, the one action applies the function.                         *)
(***************************************************************************)
NoCall ==
  /\ allowWrite = TRUE
  /\ allowUnsafeLogs = FALSE
  /\ NoHost
  /\ pc = "idle"
  /\ tool = ""
  /\ args = NoArgs
  /\ at = "start"
  /\ locals = NoLocals
  /\ requests = <<>>
  /\ replies = <<>>
  /\ returned = <<>>
  /\ thrown = <<>>

Result(value) == [result |-> value]

OptionalNumbers(low, high) == {Undef} \cup {Num(n) : n \in low..high}

PageItems == {Num(1), Num(2)}

PaginateInputs ==
  [items : UNION {[1..n -> PageItems] : n \in 0..MaxLen},
   limit : OptionalNumbers(-1, MaxLimit),
   offset : OptionalNumbers(-1, MaxOffset)]

InitPaginate == NoCall /\ fnIn \in PaginateInputs /\ fnOut = NoValue

ApplyPaginate ==
  /\ fnOut = NoValue
  /\ fnOut' = Result(paginate(fnIn.items, fnIn.limit, fnIn.offset))
  /\ UNCHANGED <<hostVars, allowWrite, allowUnsafeLogs, callVars, fnIn>>

SpecPaginate == InitPaginate /\ [][ApplyPaginate]_vars

MatchItems ==
  {Null, Undef, Str("app"), Num(1), Arr(<<Str("app")>>), EmptyObject,
   Obj([type |-> Str("App")]),
   Obj([kind |-> Str("  app\n")]),
   Obj([name |-> Str("app")]),
   Obj([type |-> Str("db"), kind |-> Str("app")]),
   Obj([type |-> Str("")]),
   Obj([type |-> Num(1)]),
   Obj([type |-> Num(10), status |-> Str("1")]),
   Obj([type |-> Bool(TRUE)]),
   Obj([database_type |-> Str("APP"), state |-> Str("app")])}

MatchExpected ==
  {Undef, Str(""), Str(" "), Str("app"), Str(" App "), Str("APP"), Str("ap"),
   Str("1"), Str(" 1"), Str("01"), Str("10"), Str("true")}

MatchInputs ==
  [item : MatchItems,
   keys : {RESOURCE_TYPE_KEYS, RESOURCE_STATUS_KEYS, DATABASE_TYPE_KEYS},
   expected : MatchExpected]

InitMatch == NoCall /\ fnIn \in MatchInputs /\ fnOut = NoValue

ApplyMatchesAnyField ==
  /\ fnOut = NoValue
  /\ fnOut' = Result(matchesAnyField(fnIn.item, fnIn.keys, fnIn.expected))
  /\ UNCHANGED <<hostVars, allowWrite, allowUnsafeLogs, callVars, fnIn>>

SpecMatch == InitMatch /\ [][ApplyMatchesAnyField]_vars

\* keys of the records handed to redactSecrets: plain, sensitive, URL-like
RedactKeys == {"name", "DB_PASSWORD", "apiKey", "db_url", "dsn"}

\* primitives handed to redactSecrets
RedactLeaves ==
  {Undef, Null, Bool(TRUE), Num(7), Str("pw"), Str(SECRET_MASK),
   Str("postgres://u:p@h/d"), Str("https://h/p@x")}

RECURSIVE RedactValues(_)
\* the values nested at most `depth` deep in arrays and records
RedactValues(depth) ==
  IF depth = 0 THEN RedactLeaves
  ELSE LET inner == RedactValues(depth - 1)
       IN inner
            \cup {Arr(<<v, Str("pw")>>) : v \in inner}
            \cup {Obj([k \in {key, "id"} |-> IF k = key THEN v ELSE Num(1)]) :
                    key \in RedactKeys, v \in inner}

RedactInputs == [value : RedactValues(MaxDepth)]

InitRedact == NoCall /\ fnIn \in RedactInputs /\ fnOut = NoValue

ApplyRedactSecrets ==
  /\ fnOut = NoValue
  /\ fnOut' = Result(redactSecrets(fnIn.value))
  /\ UNCHANGED <<hostVars, allowWrite, allowUnsafeLogs, callVars, fnIn>>

SpecRedact == InitRedact /\ [][ApplyRedactSecrets]_vars

(***************************************************************************)
(* Regular expressions, as the log redaction uses them: a pattern is a     *)
(* tree, and a match is tried the way a backtracking matcher tries it,     *)
(* alternatives in order and quantifiers greedy unless marked lazy.        *)
(* MatchOne returns the matches from one position in that order; the first *)
(* is the one RegExp.prototype.exec finds.                                 *)
(***************************************************************************)
\* the characters of a string, one by one
Letters(s) == [i \in 1..Len(s) |-> SubSeq(s, i, i)]

\* the characters of a string, as a set
CharSet(s) == {SubSeq(s, i, i) : i \in 1..Len(s)}

\* \s, \w and the character ranges of the patterns
SpaceChars == {" ", "\t", "\n", "\r"}
LowerChars == CharSet(LOWER)
UpperChars == CharSet(UPPER)
DigitChars == CharSet(DIGITS)
WordChars == LowerChars \cup UpperChars \cup DigitChars \cup {"_"}

Lit(text) == [k |-> "lit", cs |-> Letters(text)]
Cls(set) == [k |-> "cls", set |-> set, neg |-> FALSE]
NotCls(set) == [k |-> "cls", set |-> set, neg |-> TRUE]
Alt(items) == [k |-> "alt", items |-> items]
Rep(r, min, max) == [k |-> "rep", r |-> r, min |-> min, max |-> max, lazy |-> FALSE]
LazyRep(r, min, max) == [k |-> "rep", r |-> r, min |-> min, max |-> max, lazy |-> TRUE]
Ref(n) == [k |-> "ref", n |-> n]
Bol == [k |-> "bol"]
Wb == [k |-> "wb"]

\* the parentheses of capture group n
Open(n) == [k |-> "open", n |-> n]
Close(n) == [k |-> "close", n |-> n]

RECURSIVE Flatten(_, _, _)
\* parts[low] \o ... \o parts[high]
Flatten(parts, low, high) ==
  IF low > high THEN <<>>
  ELSE IF low = high THEN parts[low]
  ELSE Flatten(parts, low, (low + high) \div 2)
         \o Flatten(parts, (low + high) \div 2 + 1, high)

Cat(items) == [k |-> "cat", items |-> items]
Grp(n, r) == [k |-> "grp", n |-> n, r |-> r]

\* x*, x+, x? and a quantifier without upper limit
Unbounded == -1
Star(r) == Rep(r, 0, Unbounded)
Plus(r) == Rep(r, 1, Unbounded)
Opt(r) == Rep(r, 0, 1)

\* an alternative of literals
AnyOf(texts) == Alt([i \in 1..Len(texts) |-> Lit(texts[i])])

\* a match in progress: where it started, the next position and the capture
\* groups so far, each <<first, next>> or <<0, 0>> when the group has not
\* taken part
NoGroups == [n \in 1..4 |-> <<0, 0>>]
MatchStart(pos) == [first |-> pos, pos |-> pos, caps |-> NoGroups]

\* position pos of cs is a word boundary
AtWordBoundary(cs, pos) ==
  (pos > 1 /\ cs[pos - 1] \in WordChars)
    # (pos <= Len(cs) /\ cs[pos] \in WordChars)

\* text stands at the position of st
StandsAt(text, cs, st) ==
  /\ st.pos + Len(text) - 1 <= Len(cs)
  /\ SubSeq(cs, st.pos, st.pos + Len(text) - 1) = text

\* the text capture group n has taken
Captured(cs, st, n) == SubSeq(cs, st.caps[n][1], st.caps[n][2] - 1)

\* a character class repeated: the run of characters of the class from
\* st.pos on decides every match, the longest first unless lazy
MatchClassRun(r, cs, st) ==
  LET stops == {i \in st.pos..Len(cs) : (cs[i] \in r.r.set) = r.r.neg}
      run == IF stops = {} THEN Len(cs) - st.pos + 1
             ELSE (CHOOSE i \in stops : \A j \in stops : i <= j) - st.pos
      most == IF r.max = Unbounded \/ run <= r.max THEN run ELSE r.max
  IN IF most < r.min THEN <<>>
     ELSE [n \in 1..(most - r.min + 1) |->
             [st EXCEPT !.pos = @ + (IF r.lazy THEN r.min + n - 1 ELSE most - n + 1)]]

\* x{min,max} after one repetition
OneLess(r) ==
  [r EXCEPT !.min = IF @ > 0 THEN @ - 1 ELSE 0,
            !.max = IF @ = Unbounded THEN @ ELSE @ - 1]

RECURSIVE MatchAll(_, _, _)
RECURSIVE MatchCat(_, _, _, _, _)

\* items[low..high] one after the other
MatchCat(items, low, high, cs, sts) ==
  IF sts = <<>> \/ low > high THEN sts
  ELSE IF low = high THEN MatchAll(items[low], cs, sts)
  ELSE MatchCat(items, (low + high) \div 2 + 1, high, cs,
                MatchCat(items, low, (low + high) \div 2, cs, sts))

\* the matches of r that continue the matches sts, in the order a
\* backtracking matcher tries them
MatchAll(r, cs, sts) ==
  CASE r.k = "lit" ->
         LET fit == SelectSeq(sts, LAMBDA st : StandsAt(r.cs, cs, st))
         IN [i \in 1..Len(fit) |-> [fit[i] EXCEPT !.pos = @ + Len(r.cs)]]
    [] r.k = "cls" ->
         LET fit == SelectSeq(sts, LAMBDA st :
                      st.pos <= Len(cs) /\ ((cs[st.pos] \in r.set) # r.neg))
         IN [i \in 1..Len(fit) |-> [fit[i] EXCEPT !.pos = @ + 1]]
    [] r.k = "open" ->
         [i \in 1..Len(sts) |-> [sts[i] EXCEPT !.caps[r.n] = <<sts[i].pos, 0>>]]
    [] r.k = "close" ->
         [i \in 1..Len(sts) |-> [sts[i] EXCEPT !.caps[r.n][2] = sts[i].pos]]
    [] r.k = "ref" ->
         LET fit == SelectSeq(sts, LAMBDA st : StandsAt(Captured(cs, st, r.n), cs, st))
         IN [i \in 1..Len(fit) |->
               [fit[i] EXCEPT !.pos = @ + Len(Captured(cs, fit[i], r.n))]]
    [] r.k = "bol" -> SelectSeq(sts, LAMBDA st : st.pos = 1)
    [] r.k = "wb" -> SelectSeq(sts, LAMBDA st : AtWordBoundary(cs, st.pos))
    [] r.k = "cat" -> MatchCat(r.items, 1, Len(r.items), cs, sts)
    [] r.k = "alt" ->
         Flatten([n \in 1..(Len(sts) * Len(r.items)) |->
                    MatchAll(r.items[((n - 1) % Len(r.items)) + 1], cs,
                             <<sts[((n - 1) \div Len(r.items)) + 1]>>)],
                 1, Len(sts) * Len(r.items))
    [] r.k = "rep" /\ r.r.k = "cls" ->
         Flatten([i \in 1..Len(sts) |-> MatchClassRun(r, cs, sts[i])], 1, Len(sts))
    [] r.k = "rep" /\ r.r.k # "cls" ->
         \* once and then as x{min-1,max-1}, or not at all; a repetition
         \* that consumes nothing is not repeated
         Flatten([i \in 1..Len(sts) |->
                    LET once == IF r.max = 0 THEN <<>>
                                ELSE SelectSeq(MatchAll(r.r, cs, <<sts[i]>>),
                                               LAMBDA st : st.pos > sts[i].pos)
                        more == MatchAll(OneLess(r), cs, once)
                        stop == IF r.min = 0 THEN <<sts[i]>> ELSE <<>>
                    IN IF r.lazy THEN stop \o more ELSE more \o stop],
                 1, Len(sts))

\* the matches from position `from` on, those that start further left
\* first: RegExp.prototype.exec finds the first of them
Exec(r, cs, from) ==
  MatchAll(r, cs, [n \in 1..(Len(cs) - from + 2) |-> MatchStart(from + n - 1)])

\* the items of r when it stands in a sequence
ItemsOf(r) == IF r.k = "cat" THEN r.items ELSE <<r>>

RECURSIVE Compile(_, _)
\* the pattern as the matcher takes it: a sequence inside a sequence is
\* written out in place, a capture group is the sequence of its opening
\* parenthesis, its content and its closing parenthesis, and under the i
\* flag the letters are compared without regard to case
Compile(r, ignoreCase) ==
  CASE r.k = "lit" ->
         IF ignoreCase
         THEN [r EXCEPT !.cs = [i \in 1..Len(r.cs) |-> LowerChar(r.cs[i])]]
         ELSE r
    [] r.k = "cls" ->
         IF ignoreCase THEN [r EXCEPT !.set = {LowerChar(c) : c \in r.set}] ELSE r
    [] r.k = "alt" ->
         [r EXCEPT !.items = [i \in 1..Len(r.items) |-> Compile(r.items[i], ignoreCase)]]
    [] r.k = "rep" -> [r EXCEPT !.r = Compile(r.r, ignoreCase)]
    [] r.k = "cat" ->
         [r EXCEPT !.items =
            Flatten([i \in 1..Len(r.items) |-> ItemsOf(Compile(r.items[i], ignoreCase))],
                    1, Len(r.items))]
    [] r.k = "grp" ->
         Cat(<<Open(r.n)>> \o ItemsOf(Compile(r.r, ignoreCase)) \o <<Close(r.n)>>)
    [] OTHER -> r

\* a pattern literal without and with the i flag
Regex(r) == [r |-> Compile(r, FALSE), ignoreCase |-> FALSE]
RegexI(r) == [r |-> Compile(r, TRUE), ignoreCase |-> TRUE]

\* the characters a pattern is matched against
Subject(p, s) ==
  [i \in 1..Len(s) |->
     IF p.ignoreCase THEN LowerChar(SubSeq(s, i, i)) ELSE SubSeq(s, i, i)]

\* RegExp.prototype.test
Test(p, s) == Exec(p.r, Subject(p, s), 1) # <<>>

\* the text of a capture group: "" when the group has not taken part
Group(s, st, n) == SubSeq(s, st.caps[n][1], st.caps[n][2] - 1)

\* the replacer function redactLogLine passes for ENV_ASSIGNMENT_RE:
\* prefix, export keyword and key are kept, the value is masked inside
\* its quotes
EnvAssignmentReplacer(s, st) ==
  LET prefix == Group(s, st, 1)
      exportKeyword == Group(s, st, 2)
      key == Group(s, st, 3)
      value == Group(s, st, 4)
      quoted(q) == startsWith(value, q) /\ SubSeq(value, Len(value), Len(value)) = q
  IN IF quoted("\"") THEN prefix \o exportKeyword \o key \o "=\"" \o SECRET_MASK \o "\""
     ELSE IF quoted("'") THEN prefix \o exportKeyword \o key \o "='" \o SECRET_MASK \o "'"
     ELSE prefix \o exportKeyword \o key \o "=" \o SECRET_MASK

\* the parts of a replacement: $n, literal text, or the replacer function
Dollar(n) == [g |-> n]
Text(text) == [t |-> text]
Replacer == [fn |-> "EnvAssignmentReplacer"]

RECURSIVE Expand(_, _, _)
\* a replacement with its parts filled in from the match
Expand(parts, s, st) ==
  IF parts = <<>> THEN ""
  ELSE (CASE "g" \in DOMAIN Head(parts) -> Group(s, st, Head(parts).g)
          [] "t" \in DOMAIN Head(parts) -> Head(parts).t
          [] OTHER -> EnvAssignmentReplacer(s, st))
         \o Expand(Tail(parts), s, st)

RECURSIVE ReplaceFrom(_, _, _, _)
\* String.prototype.replace with a g pattern, from position `from` on:
\* every match, left to right, none overlapping; ms are the matches Exec
\* finds, and after an empty match the search moves on by one character
ReplaceFrom(rule, s, cs, from) ==
  CHOOSE out \in
    {IF ms = <<>> THEN SubSeq(s, from, Len(s))
     ELSE SubSeq(s, from, ms[1].first - 1) \o Expand(rule.replacement, s, ms[1])
            \o (IF ms[1].pos > ms[1].first THEN ReplaceFrom(rule, s, cs, ms[1].pos)
                ELSE IF ms[1].first > Len(s) THEN ""
                ELSE SubSeq(s, ms[1].first, ms[1].first)
                       \o ReplaceFrom(rule, s, cs, ms[1].first + 1)) :
       ms \in {Exec(rule.pattern.r, cs, from)}} : TRUE

Replace(s, rule) == ReplaceFrom(rule, s, Subject(rule.pattern, s), 1)

(***************************************************************************)
(* Log redaction (src/unnamed/part_002, the revision of tools/coolify.ts   *)
(* with log modes).                                                        *)
(***************************************************************************)
LOG_MODE_VALUES == {"safe", "strict", "raw"}
REDACTED_LINE == "[REDACTED LINE]"

\* character classes of the patterns
Quotes == {"\"", "'"}
KeyChars == UpperChars \cup DigitChars \cup {"_"}
AlnumChars == UpperChars \cup LowerChars \cup DigitChars
S == Cls(SpaceChars)
NotS == NotCls(SpaceChars)

\* (?:password|pass|secret|token|api[_-]?key|access[_-]?key|private[_-]?key)
SecretWord ==
  Alt(<<Lit("password"), Lit("pass"), Lit("secret"), Lit("token"),
        Cat(<<Lit("api"), Opt(Cls({"_", "-"})), Lit("key")>>),
        Cat(<<Lit("access"), Opt(Cls({"_", "-"})), Lit("key")>>),
        Cat(<<Lit("private"), Opt(Cls({"_", "-"})), Lit("key")>>)>>)

\* the same with |_key|_secret
SecretSuffix == Alt(SecretWord.items \o <<Lit("_key"), Lit("_secret")>>)

\* \"\\s*:\\s*\" as the source spells it: a quote, backslashes followed by
\* s, a colon, the same again, a quote
QuotedColon ==
  Cat(<<Lit("\""), Lit("\\"), Star(Lit("s")), Lit(":"), Lit("\\"),
        Star(Lit("s")), Lit("\"")>>)

Rule(pattern, replacement) == [pattern |-> pattern, replacement |-> replacement]

LOG_REDACTIONS ==
  << Rule(RegexI(Cat(<<
            Grp(1, Cat(<<Wb, LazyRep(Cls(KeyChars), 0, Unbounded),
                         AnyOf(<<"PASSWORD", "PASS", "SECRET", "TOKEN",
                                 "API_KEY", "ACCESS_KEY", "PRIVATE_KEY">>),
                         Star(Cls(KeyChars)), Wb, Star(S), Lit("="), Star(S)>>)),
            Grp(2, Opt(Cls(Quotes))),
            Grp(3, Plus(NotCls(Quotes \cup SpaceChars))),
            Ref(2)>>)),
          <<Dollar(1), Dollar(2), Text(SECRET_MASK), Dollar(2)>>),
     Rule(RegexI(Cat(<<
            Grp(1, Cat(<<Wb, SecretWord, Wb, Star(S), Lit(":"), Star(S)>>)),
            Grp(2, Plus(NotCls({","} \cup SpaceChars)))>>)),
          <<Dollar(1), Text(SECRET_MASK)>>),
     Rule(RegexI(Cat(<<
            Grp(1, Cat(<<Lit("\""), SecretWord, QuotedColon>>)),
            Grp(2, Star(NotCls({"\""}))),
            Grp(3, Lit("\""))>>)),
          <<Dollar(1), Text(SECRET_MASK), Dollar(3)>>),
     Rule(RegexI(Cat(<<
            Grp(1, Cat(<<Lit("Authorization:"), Star(S), Lit("Bearer"), Plus(S)>>)),
            Grp(2, Plus(NotS))>>)),
          <<Dollar(1), Text(SECRET_MASK)>>),
     Rule(RegexI(Cat(<<
            Grp(1, Cat(<<Lit("-"), Opt(Lit("-")),
                         Alt(<<Lit("token"), Lit("password"), Lit("secret"),
                               Cat(<<Lit("api"), Opt(Cls({"-", "_"})), Lit("key")>>),
                               Cat(<<Lit("access"), Opt(Cls({"-", "_"})), Lit("key")>>),
                               Cat(<<Lit("private"), Opt(Cls({"-", "_"})), Lit("key")>>)>>),
                         Star(S), Opt(Lit("="))>>)),
            Grp(2, Plus(NotS))>>)),
          <<Dollar(1), Text(SECRET_MASK)>>),
     Rule(RegexI(Cat(<<
            Grp(1, Cat(<<Cls({"?", "&"}),
                         Alt(<<Lit("token"), Lit("access_token"),
                               Cat(<<Lit("api"), Opt(Cls({"_", "-"})), Lit("key")>>),
                               Lit("apikey"), Lit("secret"), Lit("password"),
                               Lit("key")>>),
                         Lit("=")>>)),
            Grp(2, Plus(NotCls({"&"} \cup SpaceChars)))>>)),
          <<Dollar(1), Text(SECRET_MASK)>>),
     Rule(RegexI(Cat(<<
            Grp(1, Cat(<<Lit("\""), Star(NotCls({"\""})), SecretSuffix,
                         Star(NotCls({"\""})), QuotedColon>>)),
            Grp(2, Star(NotCls({"\""}))),
            Grp(3, Lit("\""))>>)),
          <<Dollar(1), Text(SECRET_MASK), Dollar(3)>>),
     Rule(RegexI(Cat(<<
            Grp(1, Cat(<<Wb, Plus(NotCls({":"} \cup SpaceChars)), SecretSuffix,
                         Wb, Star(S), Lit(":"), Star(S)>>)),
            Grp(2, Plus(NotCls({","} \cup SpaceChars)))>>)),
          <<Dollar(1), Text(SECRET_MASK)>>),
     Rule(Regex(Cat(<<
            Wb,
            Alt(<<Cat(<<Lit("gh"), Cls({"p", "o", "u", "s", "r"}), Lit("_"),
                        Rep(Cls(AlnumChars), 10, Unbounded)>>),
                  Cat(<<Lit("github_pat_"),
                        Rep(Cls(AlnumChars \cup {"_"}), 10, Unbounded)>>)>>),
            Wb>>)),
          <<Text(SECRET_MASK)>>),
     Rule(RegexI(Cat(<<
            Grp(1, Cat(<<Plus(Cls(LowerChars)), Lit("://")>>)),
            Grp(2, Plus(NotCls({"/", ":", "@"} \cup SpaceChars))),
            Lit(":"),
            Grp(3, Plus(NotCls({"@", "/"} \cup SpaceChars))),
            Lit("@")>>)),
          <<Dollar(1), Text(SECRET_MASK), Text(":"), Text(SECRET_MASK), Text("@")>>),
     Rule(RegexI(Cat(<<
            Grp(1, Cat(<<Plus(Cls(LowerChars)), Lit("://")>>)),
            Grp(2, Plus(NotCls({"/", ":", "@"} \cup SpaceChars))),
            Lit("@")>>)),
          <<Dollar(1), Text(SECRET_MASK), Text("@")>>),
     Rule(RegexI(Cat(<<
            Grp(1, Lit("x-access-token:")),
            Grp(2, Plus(NotCls({"@", "/"} \cup SpaceChars)))>>)),
          <<Dollar(1), Text(SECRET_MASK)>>) >>

\* (^|[\s;&|()])
Prefix == Alt(<<Bol, Cls(SpaceChars \cup {";", "&", "|", "(", ")"})>>)

\* [A-Za-z_][A-Za-z0-9_]{1,}
Identifier ==
  Cat(<<Cls(UpperChars \cup LowerChars \cup {"_"}), Rep(Cls(WordChars), 1, Unbounded)>>)

\* (\"[^\"]*\"|'[^']*'|[^\s]+)
AssignedValue ==
  Alt(<<Cat(<<Lit("\""), Star(NotCls({"\""})), Lit("\"")>>),
        Cat(<<Lit("'"), Star(NotCls({"'"})), Lit("'")>>),
        Plus(NotS)>>)

ENV_ASSIGNMENT_RE ==
  Regex(Cat(<<Grp(1, Prefix), Opt(Grp(2, Cat(<<Lit("export"), Plus(S)>>))),
              Grp(3, Identifier), Star(S), Lit("="), Star(S),
              Grp(4, AssignedValue)>>))

ENV_ASSIGNMENT_TEST_RE ==
  Regex(Cat(<<Grp(1, Prefix), Opt(Grp(2, Cat(<<Lit("export"), Plus(S)>>))),
              Identifier, Star(S), Lit("="), Star(S), Grp(3, AssignedValue)>>))

\* the ENV and ARG directives of a Dockerfile, written KEY=value
DirectiveAssignment(word) ==
  RegexI(Cat(<<Grp(1, Prefix), Lit(word), Plus(S), Grp(2, Identifier),
               Star(S), Lit("="), Star(S), Grp(3, AssignedValue)>>))

\* the same written KEY value
DirectiveSpace(word) ==
  RegexI(Cat(<<Grp(1, Prefix), Lit(word), Plus(S), Grp(2, Identifier),
               Plus(S), Grp(3, Plus(NotS))>>))

DirectiveTest(word) ==
  RegexI(Cat(<<Grp(1, Prefix), Lit(word), Plus(S), Identifier, Star(S),
               Grp(2, Alt(<<Lit("="), Plus(S)>>))>>))

DOCKER_ENV_ASSIGNMENT_RE == DirectiveAssignment("ENV")
DOCKER_ENV_SPACE_RE == DirectiveSpace("ENV")
ARG_ASSIGNMENT_RE == DirectiveAssignment("ARG")
ARG_SPACE_RE == DirectiveSpace("ARG")
DOCKER_ENV_TEST_RE == DirectiveTest("ENV")
ARG_TEST_RE == DirectiveTest("ARG")

BUILD_ARG_RE ==
  RegexI(Cat(<<Grp(1, Cat(<<Lit("--build-arg"), Plus(S),
                            Rep(Cls(KeyChars), 2, Unbounded),
                            Star(S), Lit("="), Star(S)>>)),
               Grp(2, Plus(NotS))>>))

BUILD_ARG_TEST_RE ==
  RegexI(Cat(<<Lit("--build-arg"), Plus(S), Rep(Cls(KeyChars), 2, Unbounded),
               Star(S), Lit("="), Star(S), Plus(NotS)>>))

URL_TOKEN_TEST_RE ==
  RegexI(Cat(<<Cls({"?", "&"}),
               Alt(<<Lit("token"), Lit("access_token"),
                     Cat(<<Lit("api"), Opt(Cls({"_", "-"})), Lit("key")>>),
                     Lit("apikey"), Lit("secret"), Lit("password"), Lit("key")>>),
               Lit("=")>>))

AUTH_HEADER_TEST_RE ==
  RegexI(Grp(1, Alt(<<Cat(<<Lit("authorization:"), Star(S), Lit("bearer")>>),
                      Lit("x-access-token")>>)))

\* [A-Za-z0-9_-]{10,}
JwtPart == Rep(Cls(AlnumChars \cup {"_", "-"}), 10, Unbounded)

JWT_RE ==
  Regex(Cat(<<Lit("eyJ"), JwtPart, Lit("."), JwtPart, Lit("."), JwtPart>>))

LONG_HEX_RE ==
  RegexI(Cat(<<Wb, Rep(Cls(CharSet("abcdef") \cup DigitChars), 32, Unbounded), Wb>>))

LONG_BASE64_RE ==
  Regex(Cat(<<Wb, Rep(Cls(AlnumChars \cup {"+", "/"}), 30, Unbounded),
              Rep(Lit("="), 0, 2), Wb>>))

LONG_BASE64URL_RE ==
  Regex(Cat(<<Wb, Rep(Cls(AlnumChars \cup {"_", "-"}), 30, Unbounded), Wb>>))

\* /[:=]/
COLON_OR_EQUALS_RE == Regex(Cls({":", "="}))

\* the replacements redactLogLine makes after LOG_REDACTIONS, in order
LINE_REDACTIONS ==
  << Rule(ENV_ASSIGNMENT_RE, <<Replacer>>),
     Rule(DOCKER_ENV_ASSIGNMENT_RE,
          <<Dollar(1), Text("ENV "), Dollar(2), Text("="), Text(SECRET_MASK)>>),
     Rule(DOCKER_ENV_SPACE_RE,
          <<Dollar(1), Text("ENV "), Dollar(2), Text(" "), Text(SECRET_MASK)>>),
     Rule(ARG_ASSIGNMENT_RE,
          <<Dollar(1), Text("ARG "), Dollar(2), Text("="), Text(SECRET_MASK)>>),
     Rule(ARG_SPACE_RE,
          <<Dollar(1), Text("ARG "), Dollar(2), Text(" "), Text(SECRET_MASK)>>),
     Rule(BUILD_ARG_RE, <<Dollar(1), Text(SECRET_MASK)>>) >>

RECURSIVE ReplaceEach(_, _, _, _)
\* rules[low..high] applied one after the other, as in
\* rules.reduce((value, rule) => value.replace(...), line); an empty line
\* stays empty, no pattern of the rules matching the empty string
ReplaceEach(line, rules, low, high) ==
  IF line = "" \/ low > high THEN line
  ELSE IF low = high THEN Replace(line, rules[low])
  ELSE ReplaceEach(ReplaceEach(line, rules, low, (low + high) \div 2),
                   rules, (low + high) \div 2 + 1, high)

redactLogLine(line) ==
  ReplaceEach(ReplaceEach(line, LOG_REDACTIONS, 1, Len(LOG_REDACTIONS)),
              LINE_REDACTIONS, 1, Len(LINE_REDACTIONS))

resolveLogMode(mode) ==
  IF mode \in {Str("strict"), Str("raw"), Str("safe")} THEN mode.s ELSE "safe"

\* the error assertRawLogsAllowed throws
RawLogsDisabled ==
  Err("CapabilityDenied",
      "Raw logs are disabled. Set COOLIFY_ALLOW_UNSAFE_LOGS=true to allow.")

\* assertRawLogsAllowed without its check
assertRawLogsAllowedUnchecked(mode) == TRUE

\* assertRawLogsAllowed(mode): TRUE when it returns, FALSE when it throws
assertRawLogsAllowed(mode) == ~(mode = "raw" /\ ~allowUnsafeLogs)

\* isSensitiveLogLine with the long-token detectors in every mode
isSensitiveLogLineAlwaysStrict(line, mode) ==
  \/ Test(ENV_ASSIGNMENT_TEST_RE, line)
  \/ Test(DOCKER_ENV_TEST_RE, line)
  \/ Test(ARG_TEST_RE, line)
  \/ Test(BUILD_ARG_TEST_RE, line)
  \/ Test(URL_TOKEN_TEST_RE, line)
  \/ Test(AUTH_HEADER_TEST_RE, line)
  \/ (SensitiveKey(line) /\ Test(COLON_OR_EQUALS_RE, line))
  \/ Test(JWT_RE, line)
  \/ Test(LONG_HEX_RE, line)
  \/ Test(LONG_BASE64_RE, line)
  \/ Test(LONG_BASE64URL_RE, line)

\* basic || (mode !== "safe" && (LONG_HEX_RE.test(line) || ...))
isSensitiveLogLine(line, mode) ==
  \/ Test(ENV_ASSIGNMENT_TEST_RE, line)
  \/ Test(DOCKER_ENV_TEST_RE, line)
  \/ Test(ARG_TEST_RE, line)
  \/ Test(BUILD_ARG_TEST_RE, line)
  \/ Test(URL_TOKEN_TEST_RE, line)
  \/ Test(AUTH_HEADER_TEST_RE, line)
  \/ (SensitiveKey(line) /\ Test(COLON_OR_EQUALS_RE, line))
  \/ Test(JWT_RE, line)
  \/ /\ mode # "safe"
     /\ \/ Test(LONG_HEX_RE, line)
        \/ Test(LONG_BASE64_RE, line)
        \/ Test(LONG_BASE64URL_RE, line)

RECURSIVE SplitLines(_, _)
\* input.split(/\r?\n/), `from` being where the current line starts
SplitLines(s, from) ==
  LET breaks == {i \in from..Len(s) : SubSeq(s, i, i) = "\n"}
      cut == CHOOSE i \in breaks : \A j \in breaks : i <= j
      last == IF cut > from /\ SubSeq(s, cut - 1, cut - 1) = "\r" THEN cut - 2 ELSE cut - 1
  IN IF breaks = {} THEN <<SubSeq(s, from, Len(s))>>
     ELSE <<SubSeq(s, from, last)>> \o SplitLines(s, cut + 1)

RECURSIVE Join(_, _)
\* lines.join(sep)
Join(lines, sep) ==
  IF lines = <<>> THEN ""
  ELSE IF Len(lines) = 1 THEN lines[1]
  ELSE lines[1] \o sep \o Join(Tail(lines), sep)

redactLogString(input, mode) ==
  IF mode = "raw" THEN input
  ELSE LET lines == SplitLines(input, 1)
       IN Join([i \in 1..Len(lines) |->
                  IF isSensitiveLogLine(lines[i], mode) THEN REDACTED_LINE
                  ELSE redactLogLine(lines[i])],
               "\n")

\* lines of a build log: an environment assignment, plain text, a long hex
\* token, a clone URL with credentials, text that mentions env
LogLines ==
  {"DB_PASSWORD=supersecret123",
   "Starting build for app my-app",
   "0123456789abcdef0123456789abcdef01234567",
   "clone https://user:pw@github.com/o/r",
   "load env vars ok"}

LineBreaks == {"\n", "\r\n"}

RECURSIVE LogTexts(_)
\* the texts of at most n lines
LogTexts(n) ==
  IF n = 1 THEN LogLines
  ELSE LET shorter == LogTexts(n - 1)
       IN shorter \cup {text \o br \o line :
                          text \in shorter, br \in LineBreaks, line \in LogLines}

LogStringInputs == [input : LogTexts(MaxLines), mode : LOG_MODE_VALUES]

InitLogString == NoCall /\ fnIn \in LogStringInputs /\ fnOut = NoValue

ApplyRedactLogString ==
  /\ fnOut = NoValue
  /\ fnOut' = Result(redactLogString(fnIn.input, fnIn.mode))
  /\ UNCHANGED <<hostVars, allowWrite, allowUnsafeLogs, callVars, fnIn>>

SpecLogString == InitLogString /\ [][ApplyRedactLogString]_vars

(***************************************************************************)
(* The log-exposing tools of src/unnamed/part_002: getLogs, getDeployment, *)
(* listDeployments and listAppDeployments take a logMode, and the last     *)
(* three an includeLogs.                                                   *)
(***************************************************************************)
\* LOG_FIELD_PATTERN.test(key)
LogField(key) ==
  \E word \in {"log", "logs", "stdout", "stderr", "output", "command", "cmd", "args"} :
    includes(toLowerCase(key), word)

RECURSIVE stripLogFields(_)
stripLogFields(value) ==
  IF IsArray(value)
  THEN Arr([i \in 1..Len(value.a) |-> stripLogFields(value.a[i])])
  ELSE IF ~isRecord(value) THEN value
  ELSE Obj([key \in {k \in DOMAIN value.o : ~LogField(k)} |->
              stripLogFields(value.o[key])])

RECURSIVE redactLogFields(_, _)
redactLogFields(value, mode) ==
  IF IsArray(value)
  THEN Arr([i \in 1..Len(value.a) |-> redactLogFields(value.a[i], mode)])
  ELSE IF ~isRecord(value) THEN value
  ELSE Obj([key \in DOMAIN value.o |->
              LET fieldValue == value.o[key]
              IN IF LogField(key) /\ IsString(fieldValue)
                 THEN Str(redactLogString(fieldValue.s, mode))
                 ELSE IF LogField(key) /\ IsArray(fieldValue)
                 THEN Arr([i \in 1..Len(fieldValue.a) |->
                             LET entry == fieldValue.a[i]
                             IN IF IsString(entry)
                                THEN Str(redactLogString(entry.s, mode))
                                ELSE redactLogFields(entry, mode)])
                 ELSE redactLogFields(fieldValue, mode)])

\* includeLogs ? redactLogFields(value, resolvedLogMode) : stripLogFields(value)
SanitizeLogs(a, value) ==
  IF Truthy(a.includeLogs)
  THEN redactLogFields(value, resolveLogMode(a.logMode))
  ELSE stripLogFields(value)

\* { logsStripped: !includeLogs }
LogsStripped(a) == Obj([logsStripped |-> Bool(~Truthy(a.includeLogs))])

\* Each handler below is the part of the handler that follows its await.
getLogsWithLogMode(a, data) ==
  LET resolvedLogMode == resolveLogMode(a.logMode)
  IN IF isRecord(data) /\ "logs" \in DOMAIN data.o /\ IsString(data.o.logs)
     THEN ok("Logs fetched.",
             Obj([data.o EXCEPT !.logs =
                    IF resolvedLogMode = "raw" THEN @
                    ELSE Str(redactLogString(@.s, resolvedLogMode))]))
     ELSE ok("Logs fetched.", data)

getDeploymentWithLogMode(a, data) ==
  ok("Deployment " \o a.uuid \o " fetched.", redactSecrets(SanitizeLogs(a, data)))

\* meta: {total, offset, limit, hasMore, logsStripped: !includeLogs}
PageMetaLogsStripped(page, a) ==
  Obj([k \in {"total", "offset", "limit", "hasMore", "logsStripped"} |->
         CASE k = "total" -> Num(page.total)
           [] k = "offset" -> Num(page.offset)
           [] k = "limit" -> page.limit
           [] k = "hasMore" -> Bool(page.hasMore)
           [] k = "logsStripped" -> Bool(~Truthy(a.includeLogs))])

listDeploymentsWithLogMode(a, data) ==
  IF ~Truthy(normalizeItems(data))
  THEN list("Running deployments fetched.",
            redactSecrets(SanitizeLogs(a, parseMaybeJson(data))))
  ELSE CHOOSE result \in
         {listWithMeta("Running deployments fetched.", Arr(page.items),
                       PageMetaLogsStripped(page, a)) :
            page \in {paginate(redacted.a, a.limit, a.offset) :
                        redacted \in {redactSecrets(SanitizeLogs(a, normalizeItems(data)))}}} :
         TRUE

listAppDeploymentsWithLogMode(a, data) ==
  LET items == Nullish(normalizeItems(data), parseMaybeJson(data))
  IN listWithMeta("Deployments for " \o a.uuid \o " fetched.",
                  redactSecrets(SanitizeLogs(a, items)), LogsStripped(a))

\* the log-exposing tools: the SDK operation and the shape of its options
LogTool ==
  [getLogs |-> [op |-> "getApplicationLogsByUuid", shape |-> "uuid+query"],
   getDeployment |-> [op |-> "getDeploymentByUuid", shape |-> "uuid"],
   listDeployments |-> [op |-> "listDeployments", shape |-> "none"],
   listAppDeployments |-> [op |-> "listDeploymentsByAppUuid", shape |-> "uuid+query"]]

LogTools == DOMAIN LogTool

LogToolResult(tl, a, data) ==
  CASE tl = "getLogs" -> getLogsWithLogMode(a, data)
    [] tl = "getDeployment" -> getDeploymentWithLogMode(a, data)
    [] tl = "listDeployments" -> listDeploymentsWithLogMode(a, data)
    [] tl = "listAppDeployments" -> listAppDeploymentsWithLogMode(a, data)

\* schema-valid arguments of the log-exposing tools
LogToolArgs(tl) ==
  {[uuid |-> AppUuid, query |-> EmptyObject, limit |-> Undef, offset |-> Undef,
    includeLogs |-> inc, logMode |-> mode] :
     inc \in (IF tl = "getLogs" THEN {Undef} ELSE {Undef, Bool(FALSE), Bool(TRUE)}),
     mode \in {Undef} \cup {Str(m) : m \in LOG_MODE_VALUES}}

\* what the upstream holds of logs
SecretLogText == "DB_PASSWORD=supersecret123\nStarting build for app my-app"

DeploymentRecord ==
  Obj([deployment_uuid |-> Str("d1"), status |-> Str("finished"),
       logs |-> Str(SecretLogText),
       server |-> Obj([name |-> Str("s1"), stdout |-> Str("token: t0k")])])

LogPayloads ==
  {Obj([logs |-> Str(SecretLogText)]),
   Obj([logs |-> Arr(<<Str("DB_PASSWORD=supersecret123")>>)]),
   Str(SecretLogText),
   DeploymentRecord,
   Arr(<<DeploymentRecord>>),
   Obj([items |-> Arr(<<DeploymentRecord>>)])}

LogReplies == {Fulfilled(d, Undef) : d \in LogPayloads} \cup FailureReplies

\* the handler of a log-exposing tool from its entry to its await
InvokeLogTool(tl, a) ==
  /\ pc = "idle"
  /\ tool' = tl
  /\ args' = a
  /\ IF assertRawLogsAllowed(resolveLogMode(a.logMode))
     THEN Await(LogTool[tl].op, ReadOptions(LogTool[tl].shape, a), "call")
     ELSE Throw(RawLogsDisabled) /\ UNCHANGED requests
  /\ UNCHANGED <<hostVars, allowWrite, allowUnsafeLogs, locals, replies, fnIn, fnOut>>

\* the handler of a log-exposing tool from its await to its end
ResumeLogTool(reply) ==
  /\ pc = "awaiting"
  /\ tool \in LogTools
  /\ replies' = Append(replies, reply)
  /\ LET r == unwrap(reply, tool)
     IN IF r.threw
        THEN Throw(r.error)
        ELSE Return(LogToolResult(tool, args, r.data))
  /\ UNCHANGED <<hostVars, allowWrite, allowUnsafeLogs, tool, args, locals, requests, fnIn, fnOut>>

InitLogs ==
  /\ allowWrite = TRUE
  /\ allowUnsafeLogs \in BOOLEAN
  /\ NoHost
  /\ pc = "idle"
  /\ tool = ""
  /\ args = NoArgs
  /\ at = "start"
  /\ locals = NoLocals
  /\ requests = <<>>
  /\ replies = <<>>
  /\ returned = <<>>
  /\ thrown = <<>>
  /\ fnIn = NoValue
  /\ fnOut = NoValue

NextLogs ==
  \/ \E tl \in LogTools : \E a \in LogToolArgs(tl) : InvokeLogTool(tl, a)
  \/ \E reply \in LogReplies : ResumeLogTool(reply)
  \/ NextCall

SpecLogs == InitLogs /\ [][NextLogs]_vars

(***************************************************************************)
(* Vocabulary of the properties.                                           *)
(***************************************************************************)
Min(a, b) == IF a <= b THEN a ELSE b

Ops == [i \in 1..Len(requests) |-> requests[i].op]

ListOp == "listEnvsByApplicationUuid"
UpdateOp == "updateEnvByApplicationUuid"
CreateOp == "createEnvByApplicationUuid"

\* the upstream reported a failure, or answered with an HTML page
Failed(reply) == unwrap(reply, "").threw

\* the tools the documentation calls write operations, by their verb
MutatingVerbs ==
  {"create", "update", "upsert", "delete", "start", "stop", "restart",
   "deploy", "cancel"}

IsMutating(tl) == \E verb \in MutatingVerbs : startsWith(tl, verb)

\* upsertEnv has read the env-var list and the read succeeded
UpsertListed ==
  tool = "upsertEnv" /\ Len(replies) >= 1 /\ ~Failed(replies[1])

ListedEnvs == replies[1].data

\* is_preview as resolved: false when the caller gave none
ResolvedPreview == IF args.is_preview = Undef THEN Bool(FALSE) ELSE args.is_preview

\* positions of the listed entries that carry the key and the resolved flag
MatchingEntries ==
  {i \in 1..Len(ListedEnvs.a) :
     /\ Get(ListedEnvs.a[i], "key") = args.key
     /\ Get(ListedEnvs.a[i], "is_preview") = ResolvedPreview}

UpsertListedArray == UpsertListed /\ IsArray(ListedEnvs)

CorrectiveCalls ==
  Cardinality({i \in 1..Len(requests) : requests[i].op \in {UpdateOp, CreateOp}})

(***************************************************************************)
(* C1: with writes disabled, a mutating tool fails with the write-disabled *)
(* error at once, and the invocation has issued no upstream request.       *)
(***************************************************************************)
C1_WriteGate ==
  (~allowWrite /\ IsMutating(tool)) =>
     /\ pc = "done"
     /\ requests = <<>>
     /\ returned = <<>>
     /\ thrown = <<WriteDisabled>>

C1_Witness ==
  /\ ~allowWrite
  /\ tool = "deleteApplication"
  /\ pc = "done"
  /\ thrown = <<WriteDisabled>>
  /\ requests = <<>>

(***************************************************************************)
(* C2: when the listed env vars are an array with no entry matching key    *)
(* and the resolved is_preview, upsertEnv has issued the list read and     *)
(* then exactly one create, and no update.                                 *)
(***************************************************************************)
C2_ZeroMatchesCreate ==
  (UpsertListedArray /\ MatchingEntries = {}) => Ops = <<ListOp, CreateOp>>

C2_Witness ==
  /\ UpsertListedArray
  /\ MatchingEntries = {}
  /\ Len(ListedEnvs.a) > 0
  /\ args.is_preview = Undef
  /\ Ops = <<ListOp, CreateOp>>
  /\ pc = "done"
  /\ Len(returned) = 1

(***************************************************************************)
(* C3 as claimed: with exactly one matching entry, upsertEnv issues one    *)
(* update, no create, and the update request names that entry's            *)
(* identifier.                                                             *)
(***************************************************************************)
TheMatch == ListedEnvs.a[CHOOSE i \in MatchingEntries : TRUE]

\* the request carries the identifier `id` in its path or in its body
NamesRecord(request, id) ==
  \/ \E k \in DOMAIN request.options.path : request.options.path[k] = id.s
  \/ \E k \in DOMAIN request.options.body.o : request.options.body.o[k] = id

C3_UpdateTargetsIdentifier ==
  (UpsertListedArray /\ Cardinality(MatchingEntries) = 1) =>
     /\ Ops = <<ListOp, UpdateOp>>
     /\ HasKey(TheMatch, "uuid") => NamesRecord(requests[2], Get(TheMatch, "uuid"))

(***************************************************************************)
(* C3 as amended: with exactly one matching entry, upsertEnv issues one    *)
(* update and no create; the update is addressed to the application and    *)
(* carries the key and is_preview the matching entry has, with the new     *)
(* value.  The entry's own identifier is not part of the request.          *)
(***************************************************************************)
C3_UpdateByKey ==
  (UpsertListedArray /\ Cardinality(MatchingEntries) = 1) =>
     /\ Ops = <<ListOp, UpdateOp>>
     /\ requests[2].options.path = [uuid |-> args.uuid]
     /\ Get(requests[2].options.body, "key") = Get(TheMatch, "key")
     /\ Get(requests[2].options.body, "is_preview") = Get(TheMatch, "is_preview")
     /\ Get(requests[2].options.body, "value") = args.value

C3_Witness ==
  /\ UpsertListedArray
  /\ Cardinality(MatchingEntries) = 1
  /\ Len(ListedEnvs.a) > 1
  /\ HasKey(TheMatch, "uuid")
  /\ Ops = <<ListOp, UpdateOp>>
  /\ pc = "done"
  /\ Len(returned) = 1

(***************************************************************************)
(* C4: with more than one matching entry, upsertEnv fails with the         *)
(* multiple-envs error, whose text lists the identifier and is_preview of  *)
(* every matching entry, and issues neither an update nor a create.        *)
(***************************************************************************)
OptionText(env) ==
  (IF HasKey(env, "uuid") THEN Get(env, "uuid").s ELSE "unknown")
    \o " (is_preview="
    \o (IF Get(env, "is_preview").b THEN "true" ELSE "false") \o ")"

C4_AmbiguousState ==
  (UpsertListedArray /\ Cardinality(MatchingEntries) > 1) =>
     /\ pc = "done"
     /\ Ops = <<ListOp>>
     /\ returned = <<>>
     /\ Len(thrown) = 1
     /\ thrown[1].name = "AmbiguousState"
     /\ \A i \in MatchingEntries :
          includes(thrown[1].message, OptionText(ListedEnvs.a[i]))

C4_Witness ==
  /\ UpsertListedArray
  /\ Cardinality(MatchingEntries) > 1
  /\ \E i, j \in MatchingEntries :
       Get(ListedEnvs.a[i], "uuid") # Get(ListedEnvs.a[j], "uuid")
  /\ Len(thrown) = 1
  /\ thrown[1].name = "AmbiguousState"

(***************************************************************************)
(* C5: when the listed env vars are not an array, upsertEnv attempts the   *)
(* update first and a create only after that update failed; when the       *)
(* update succeeds there is no create and the result says "updated".       *)
(***************************************************************************)
UpsertListedOther == UpsertListed /\ ~IsArray(ListedEnvs)

C5_FallbackUpdateFirst ==
  UpsertListedOther =>
     /\ Len(requests) \in {2, 3}
     /\ requests[2].op = UpdateOp
     /\ Len(requests) = 3 <=> (Len(replies) >= 2 /\ Failed(replies[2]))
     /\ Len(requests) = 3 => requests[3].op = CreateOp
     /\ (Len(replies) >= 2 /\ ~Failed(replies[2])) =>
          /\ pc = "done"
          /\ thrown = <<>>
          /\ Len(returned) = 1
          /\ includes(returned[1].content[1].text, "updated")

C5_Witness ==
  /\ UpsertListedOther
  /\ Len(replies) = 2
  /\ ~Failed(replies[2])
  /\ Ops = <<ListOp, UpdateOp>>
  /\ Len(returned) = 1
  /\ includes(returned[1].content[1].text, "updated")

(***************************************************************************)
(* C6 as claimed: on every path of upsertEnv at most one update or create  *)
(* follows the list read, and a failed upstream call ends the invocation   *)
(* with an error and no further upstream call.                             *)
(***************************************************************************)
C6_OneCorrectiveCall ==
  tool = "upsertEnv" =>
     /\ CorrectiveCalls <= 1
     /\ \A i \in 1..Len(replies) :
          Failed(replies[i]) =>
            (pc = "done" /\ Len(thrown) = 1 /\ Len(requests) = i)

(***************************************************************************)
(* C6 as amended: no upstream operation is issued twice.  On the array     *)
(* path at most one update or create follows the list read and any failed  *)
(* call ends the invocation with an error.  On the non-array path a failed *)
(* update is followed by one create, so at most two corrective calls       *)
(* follow the list read; a failed list read or create ends the invocation  *)
(* with an error and no further call.                                      *)
(***************************************************************************)
C6_NoRetry ==
  tool = "upsertEnv" =>
     /\ \A i, j \in 1..Len(requests) : i # j => requests[i].op # requests[j].op
     /\ UpsertListedArray => CorrectiveCalls <= 1
     /\ CorrectiveCalls <= 2
     /\ \A i \in 1..Len(replies) :
          Failed(replies[i]) =>
            \/ pc = "done" /\ Len(thrown) = 1 /\ returned = <<>>
                 /\ Len(requests) = i
            \/ /\ UpsertListedOther
               /\ i = 2
               /\ requests[2].op = UpdateOp
               /\ Len(requests) = 3
               /\ requests[3].op = CreateOp

C6_Witness ==
  /\ UpsertListedOther
  /\ Len(replies) = 3
  /\ Failed(replies[2])
  /\ Failed(replies[3])
  /\ Ops = <<ListOp, UpdateOp, CreateOp>>
  /\ pc = "done"
  /\ Len(thrown) = 1

(***************************************************************************)
(* C7: an invocation that has ended has produced exactly one outcome, a    *)
(* ToolResult or an error, and an invocation still running has produced    *)
(* none.                                                                   *)
(***************************************************************************)
C7_ExactlyOneOutcome ==
  /\ pc = "done" => Len(returned) + Len(thrown) = 1
  /\ pc # "done" => (returned = <<>> /\ thrown = <<>>)

C7_Witness ==
  /\ pc = "done"
  /\ tool = "upsertEnv"
  /\ Len(replies) = 3
  /\ Len(returned) = 1
  /\ thrown = <<>>

(***************************************************************************)
(* C8: the structured content of a successful result is an object: {} for  *)
(* null or undefined data, the data itself when it is an object, and       *)
(* {data: ...} around an array or a primitive; a listing tool hands over   *)
(* an object holding the items, and the metadata if there is any.          *)
(***************************************************************************)
\* the tools that return through list() or listWithMeta()
ListingTools == ReadTools \ {"getApplication", "getDatabase"}

\* the data the handler that has just returned handed to ok()
HandedToOk ==
  LET data == replies[Len(replies)].data
  IN IF tool \in SingleCallTools THEN ResultData(tool, data)
     ELSE IF tool = "getApplication" THEN getApplicationData(args, data)
     ELSE IF tool = "getDatabase" THEN getDatabaseData(args, data)
     ELSE data

C8_StructuredContentIsObject ==
  (pc = "done" /\ Len(returned) = 1) =>
     LET sc == returned[1].structuredContent
         d == HandedToOk
     IN /\ sc.t = "object"
        /\ tool \in ListingTools =>
             ("items" \in DOMAIN sc.o /\ DOMAIN sc.o \subseteq {"items", "meta"})
        /\ tool \notin ListingTools =>
             /\ d.t \in {"null", "undefined"} => DOMAIN sc.o = {}
             /\ d.t = "object" => sc = d
             /\ d.t \notin {"null", "undefined", "object"} =>
                  (DOMAIN sc.o = {"data"} /\ sc.o["data"] = d)

C8_Witness ==
  /\ pc = "done"
  /\ Len(returned) = 1
  /\ HandedToOk.t = "array"
  /\ Len(HandedToOk.a) > 0
  /\ returned[1].structuredContent = Obj([k \in {"data"} |-> HandedToOk])

(***************************************************************************)
(* C9: for a limit L >= 1 and an offset O >= 0, paginate returns the       *)
(* min(L, max(0, N - O)) items at positions O .. O+L-1 in their order,     *)
(* hasMore = (O + L < N) and total = N, N being the number of items.       *)
(***************************************************************************)
C9_Paginate ==
  (/\ fnOut # NoValue
   /\ fnIn.limit # Undef /\ fnIn.limit.n >= 1
   /\ fnIn.offset # Undef /\ fnIn.offset.n >= 0) =>
     LET N == Len(fnIn.items)
         L == fnIn.limit.n
         O == fnIn.offset.n
         page == fnOut.result
     IN /\ Len(page.items) = Min(L, MathMax(0, N - O))
        /\ \A i \in 1..Len(page.items) : page.items[i] = fnIn.items[O + i]
        /\ page.hasMore = (O + L < N)
        /\ page.total = N

C9_Witness ==
  /\ fnOut # NoValue
  /\ fnIn.limit = Num(2)
  /\ fnIn.offset = Num(1)
  /\ fnIn.items = <<Num(1), Num(2), Num(1)>>
  /\ fnOut.result.items = <<Num(2), Num(1)>>
  /\ fnOut.result.hasMore = FALSE

(***************************************************************************)
(* C10 as claimed: matchesAnyField is true whenever expected is absent;    *)
(* otherwise it is true exactly when the item is a record and one of the   *)
(* keys holds a string equal to expected after trimming and case-folding   *)
(* both, or a number equal to expected.                                    *)
(***************************************************************************)
\* some candidate key of the item holds the expected value
SomeKeyHolds(item, keys, expected) ==
  /\ item.t = "object"
  /\ \E i \in 1..Len(keys) :
       LET raw == Get(item, keys[i])
       IN \/ raw.t = "string"
             /\ toLowerCase(trim(raw.s)) = toLowerCase(trim(expected.s))
          \/ raw.t = "number"
             /\ NumberToString(raw.n) = toLowerCase(trim(expected.s))

C10_MatchIffSomeKeyHolds ==
  fnOut # NoValue =>
    (fnOut.result <=> (\/ fnIn.expected = Undef
                       \/ SomeKeyHolds(fnIn.item, fnIn.keys, fnIn.expected)))

(***************************************************************************)
(* C10 as amended: matchesAnyField is true whenever expected is absent or  *)
(* the empty string; otherwise it is true exactly when the item is a       *)
(* record and one of the keys holds a string equal to expected after       *)
(* trimming and case-folding both, or a number whose decimal text equals   *)
(* the trimmed, case-folded expected.                                      *)
(***************************************************************************)
C10_MatchIffSomeKeyHoldsOrEmpty ==
  fnOut # NoValue =>
    (fnOut.result <=> (\/ fnIn.expected = Undef
                       \/ fnIn.expected = Str("")
                       \/ SomeKeyHolds(fnIn.item, fnIn.keys, fnIn.expected)))

C10_Witness ==
  /\ fnOut # NoValue
  /\ fnIn.expected = Str(" App ")
  /\ fnIn.item = Obj([kind |-> Str("  app\n")])
  /\ fnIn.keys = RESOURCE_TYPE_KEYS
  /\ fnOut.result = TRUE

(***************************************************************************)
(* Vocabulary of the claims about the read tools.                          *)
(***************************************************************************)
\* a read tool has returned a result
ReadReturned == pc = "done" /\ tool \in ReadTools /\ Len(returned) = 1

\* what unwrap() handed to the handler that has just returned
Upstream == replies[Len(replies)].data

\* the items of the result that has just been returned
ResultItems == Get(returned[1].structuredContent, "items")

\* the metadata of the result that has just been returned
ResultMeta == Get(returned[1].structuredContent, "meta")

\* the list tools that summarize, with the keys each keeps
SummaryKeys ==
  [listResources |-> {"id", "name", "status", "type"},
   listApplications |-> {"id", "uuid", "name", "status", "fqdn"},
   listDatabases |-> {"id", "uuid", "name", "status", "type", "database_type",
                      "host", "port"},
   listServers |-> {"id", "uuid", "name", "ip", "user", "port", "proxy_type"},
   listServices |-> {"id", "uuid", "name", "status", "server_id"}]

\* the call asked for summaries (the default except in listResources)
SummaryOn ==
  IF tool = "listResources" THEN args.summary = Bool(TRUE)
  ELSE args.summary # Bool(FALSE)

\* the call asked for no filter and for the whole list
WholeList ==
  /\ args.limit = Undef /\ args.offset = Undef
  /\ tool = "listResources" => (args.type = Undef /\ args.status = Undef)
  /\ tool = "listDatabases" => args.type = Undef

\* the redaction the tool applies to an item after summarizing it
RedactedByTool(item) ==
  IF \/ tool \in {"listApplications", "listServices"}
     \/ tool = "listDatabases" /\ args.showSecrets # Bool(TRUE)
  THEN redactSecrets(item)
  ELSE item

(***************************************************************************)
(* C11: in the list tools that summarize, a record with none of the        *)
(* tool's allow-listed keys passes through summarization unchanged (only   *)
(* the tool's redaction applies to it), and no record comes out of         *)
(* summarization as an empty object.                                       *)
(***************************************************************************)
C11_SummaryKeepsUnknownRecords ==
  (/\ ReadReturned /\ tool \in DOMAIN SummaryKeys /\ SummaryOn
   /\ IsArray(Upstream)) =>
     /\ WholeList =>
          /\ Len(ResultItems.a) = Len(Upstream.a)
          /\ \A i \in 1..Len(Upstream.a) :
               (/\ isRecord(Upstream.a[i])
                /\ DOMAIN Upstream.a[i].o \cap SummaryKeys[tool] = {}) =>
                  ResultItems.a[i] = RedactedByTool(Upstream.a[i])
     /\ (\E i \in 1..Len(ResultItems.a) : ResultItems.a[i] = EmptyObject) =>
          (\E i \in 1..Len(Upstream.a) : Upstream.a[i] = EmptyObject)

\* the three tools that summarize through summarizeResource,
\* summarizeApplication and summarizeDatabase keep such a record
C11_NamedSummarizersKeep ==
  tool \in {"listResources", "listApplications", "listDatabases"} =>
    C11_SummaryKeepsUnknownRecords

C11_Witness ==
  /\ ReadReturned /\ tool = "listDatabases" /\ SummaryOn /\ WholeList
  /\ IsArray(Upstream) /\ Len(Upstream.a) = 2
  /\ Upstream.a[1] = Obj([token |-> Str("t0k")])
  /\ ResultItems.a[1] = Obj([token |-> Str(SECRET_MASK)])

(***************************************************************************)
(* C12: a paged list tool filters, then summarizes, then redacts, then     *)
(* cuts the page: total is the number of upstream items that passed the    *)
(* filter, and the page holds, in order, the items offset .. offset+limit-1 *)
(* of the filtered list, each summarized (when enabled) and then redacted  *)
(* (when enabled).                                                         *)
(***************************************************************************)
\* the list tools that report a page window
PagedTools ==
  {"listResources", "listProjects", "listServers", "listPrivateKeys",
   "listGithubApps", "listApplications", "listDatabases", "listDeployments",
   "listServices"}

\* the items the tool found in the upstream data: an array, or null
UpstreamItems ==
  IF tool \in {"listResources", "listApplications", "listDatabases",
               "listDeployments", "listAppDeployments"}
  THEN normalizeItems(Upstream)
  ELSE IF IsArray(Upstream) THEN Upstream ELSE Arr(<<>>)

\* the item passes the filters of the call
PassesFilter(item) ==
  CASE tool = "listResources" ->
         /\ matchesAnyField(item, RESOURCE_TYPE_KEYS, args.type)
         /\ matchesAnyField(item, RESOURCE_STATUS_KEYS, args.status)
    [] tool = "listDatabases" ->
         matchesAnyField(item, DATABASE_TYPE_KEYS, args.type)
    [] OTHER -> TRUE

\* the keys the tools that always summarize keep
AlwaysKeptKeys ==
  [listPrivateKeys |-> {"id", "uuid", "name", "description", "is_git_related"},
   listGithubApps |-> {"id", "uuid", "name", "organization", "app_id",
                       "installation_id", "is_public"}]

\* the record cut down to the given keys
Restricted(item, keys) == Obj([k \in DOMAIN item.o \cap keys |-> item.o[k]])

\* the summary the tool makes of an item of the call
SummarizedByTool(item) ==
  IF ~isRecord(item) THEN item
  ELSE IF tool \in DOMAIN AlwaysKeptKeys
  THEN Restricted(item, AlwaysKeptKeys[tool])
  ELSE IF tool \in DOMAIN SummaryKeys /\ SummaryOn
  THEN IF /\ tool \in {"listResources", "listApplications", "listDatabases"}
          /\ DOMAIN item.o \cap SummaryKeys[tool] = {}
       THEN item
       ELSE Restricted(item, SummaryKeys[tool])
  ELSE item

C12_ShapingOrder ==
  (ReadReturned /\ tool \in PagedTools /\ IsArray(UpstreamItems)) =>
     LET passed == SelectSeq(UpstreamItems.a, PassesFilter)
         first == IF args.offset = Undef THEN 0 ELSE args.offset.n
         rest == MathMax(0, Len(passed) - first)
         count == IF args.limit = Undef THEN rest ELSE Min(args.limit.n, rest)
     IN /\ Get(ResultMeta, "total") = Num(Len(passed))
        /\ IsArray(ResultItems)
        /\ Len(ResultItems.a) = count
        /\ \A i \in 1..count :
             ResultItems.a[i] =
               RedactedByTool(SummarizedByTool(passed[first + i]))

\* the filter matches on a key the summary then drops, and the page is cut
\* from the one item that passed
C12_Witness ==
  /\ ReadReturned /\ tool = "listDatabases"
  /\ args.type = Str("postgresql") /\ args.limit = Num(1)
  /\ args.summary = Undef /\ args.showSecrets = Undef
  /\ IsArray(Upstream) /\ Len(Upstream.a) = 2
  /\ ~PassesFilter(Upstream.a[1])
  /\ Get(Upstream.a[2], "kind") = Str("postgresql")
  /\ Get(ResultMeta, "total") = Num(1)
  /\ ResultItems = Arr(<<Obj([name |-> Str("pg")])>>)

(***************************************************************************)
(* C13: redactSecrets is idempotent: redacting a redacted value changes    *)
(* nothing, for every nesting of records, arrays and primitives.           *)
(***************************************************************************)
C13_RedactIdempotent ==
  fnOut # NoValue => redactSecrets(fnOut.result) = fnOut.result

\* a secret in a record in an array has been masked, and a second pass
\* leaves the mask alone
C13_Witness ==
  /\ fnOut # NoValue
  /\ fnIn.value = Arr(<<Obj([DB_PASSWORD |-> Str("pw"), id |-> Num(1)]),
                        Str("pw")>>)
  /\ fnOut.result = Arr(<<Obj([DB_PASSWORD |-> Str(SECRET_MASK),
                               id |-> Num(1)]),
                          Str("pw")>>)
  /\ redactSecrets(fnOut.result) = fnOut.result

(***************************************************************************)
(* C14: in the output of redactSecrets, at every depth through records and *)
(* arrays, a field whose key matches the sensitive-name pattern holds the  *)
(* mask whatever its value was, and so does a field whose key looks like a *)
(* URL, URI or DSN and whose string value embeds credentials; every other  *)
(* field is redacted in turn.                                              *)
(***************************************************************************)
RECURSIVE SecretsMasked(_, _)
\* `out` is `value` with every secret field masked, at every depth
SecretsMasked(value, out) ==
  IF IsArray(value)
  THEN /\ IsArray(out)
       /\ Len(out.a) = Len(value.a)
       /\ \A i \in 1..Len(value.a) : SecretsMasked(value.a[i], out.a[i])
  ELSE IF isRecord(value)
  THEN /\ isRecord(out)
       /\ DOMAIN out.o = DOMAIN value.o
       /\ \A k \in DOMAIN value.o :
            IF \/ SensitiveKey(k)
               \/ /\ UrlKey(k)
                  /\ IsString(value.o[k])
                  /\ hasCredentialInUrl(value.o[k].s)
            THEN out.o[k] = Str(SECRET_MASK)
            ELSE SecretsMasked(value.o[k], out.o[k])
  ELSE out = value

C14_SecretsMaskedAtEveryDepth ==
  fnOut # NoValue => SecretsMasked(fnIn.value, fnOut.result)

\* a credential-bearing URL in a record in an array
C14_Witness ==
  /\ fnOut # NoValue
  /\ fnIn.value = Arr(<<Obj([db_url |-> Str("postgres://u:p@h/d"),
                             id |-> Num(1)]),
                        Str("pw")>>)
  /\ fnOut.result = Arr(<<Obj([db_url |-> Str(SECRET_MASK), id |-> Num(1)]),
                          Str("pw")>>)

(***************************************************************************)
(* C15: when listEnvs is called without showSecrets = true, the result     *)
(* says secretsMasked = true and, whatever the upstream sent, no value or  *)
(* real_value is left in plaintext: each is absent, null or the mask.      *)
(***************************************************************************)
\* the field is absent, null or the mask
AbsentNullOrMask(v) == v = Undef \/ v = Null \/ v = Str(SECRET_MASK)

RECURSIVE NoPlainEnvValue(_)
\* no record in `v`, at any depth, holds a plaintext value or real_value
NoPlainEnvValue(v) ==
  IF IsArray(v) THEN \A i \in 1..Len(v.a) : NoPlainEnvValue(v.a[i])
  ELSE IF isRecord(v)
  THEN /\ AbsentNullOrMask(Get(v, "value"))
       /\ AbsentNullOrMask(Get(v, "real_value"))
       /\ \A k \in DOMAIN v.o \ {"value", "real_value"} : NoPlainEnvValue(v.o[k])
  ELSE TRUE

C15_EnvValuesMasked ==
  (ReadReturned /\ tool = "listEnvs" /\ args.showSecrets # Bool(TRUE)) =>
     /\ Get(ResultMeta, "secretsMasked") = Bool(TRUE)
     /\ NoPlainEnvValue(ResultItems)

\* when the upstream data is an array, the values of its records are masked
C15_ArrayValuesMasked ==
  (ReadReturned /\ IsArray(Upstream)) => C15_EnvValuesMasked

C15_Witness ==
  /\ ReadReturned /\ tool = "listEnvs" /\ args.showSecrets = Undef
  /\ IsArray(Upstream) /\ Len(Upstream.a) = 2
  /\ Upstream.a[1] = Obj([key |-> Str("K"), value |-> Str("v"),
                          real_value |-> Null])
  /\ ResultItems.a[1] = Obj([key |-> Str("K"), value |-> Str(SECRET_MASK),
                             real_value |-> Null, is_secret |-> Bool(TRUE)])

(***************************************************************************)
(* C16: when listDatabases or getDatabase is called without showSecrets =  *)
(* true, every field of the result whose key matches the sensitive-name    *)
(* pattern holds the mask, and no URL field is left with credentials in    *)
(* it, whatever the shape of the upstream payload. The result is the data  *)
(* returned: the items of listDatabases (not its page metadata, whose      *)
(* secretsMasked flag is no secret) and the record of getDatabase.         *)
(***************************************************************************)
RECURSIVE NoSecretLeft(_)
\* no field of `v`, at any depth, is a secret left unmasked
NoSecretLeft(v) ==
  IF IsArray(v) THEN \A i \in 1..Len(v.a) : NoSecretLeft(v.a[i])
  ELSE IF isRecord(v)
  THEN \A k \in DOMAIN v.o :
         IF SensitiveKey(k) THEN v.o[k] = Str(SECRET_MASK)
         ELSE /\ ~(/\ UrlKey(k)
                   /\ IsString(v.o[k])
                   /\ hasCredentialInUrl(v.o[k].s))
              /\ NoSecretLeft(v.o[k])
  ELSE TRUE

C16_DatabaseSecretsRedacted ==
  (/\ ReadReturned /\ tool \in {"listDatabases", "getDatabase"}
   /\ args.showSecrets # Bool(TRUE)) =>
     NoSecretLeft(IF tool = "listDatabases" THEN ResultItems
                  ELSE returned[1].structuredContent)

\* getDatabase redacts whatever it returns, and listDatabases the items it
\* found in the upstream data
C16_RedactedWhereItemsFound ==
  (ReadReturned /\ (tool = "getDatabase" \/ IsArray(UpstreamItems))) =>
     C16_DatabaseSecretsRedacted

C16_Witness ==
  /\ ReadReturned /\ tool = "listDatabases"
  /\ args.showSecrets = Undef /\ args.summary = Bool(FALSE)
  /\ args.type = Undef /\ args.limit = Undef
  /\ isRecord(Upstream) /\ IsArray(Get(Upstream, "items"))
  /\ Get(Get(Upstream, "items").a[1], "postgres_password") = Str("pw")
  /\ ResultItems =
       Arr(<<Obj([uuid |-> Str("u2"), name |-> Str("db"),
                  database_type |-> Str("PostgreSQL"),
                  postgres_password |-> Str(SECRET_MASK),
                  internal_db_url |-> Str(SECRET_MASK)])>>)
  /\ Get(ResultMeta, "secretsMasked") = Bool(TRUE)

(***************************************************************************)
(* C17: when getApplication is called without showSecrets = true, the      *)
(* structured content is the redactSecrets image of the upstream data,     *)
(* projected on `fields` when fields are given and the data is a record,   *)
(* whatever the shape of the data (record, array, string).                 *)
(***************************************************************************)
\* the upstream data projected on the fields the call asked for
Projected ==
  IF args.fields # Undef /\ isRecord(Upstream)
  THEN Restricted(Upstream,
                  {args.fields.a[i].s : i \in 1..Len(args.fields.a)})
  ELSE Upstream

C17_GetApplicationRedacts ==
  (ReadReturned /\ tool = "getApplication" /\ args.showSecrets # Bool(TRUE)) =>
     returned[1].structuredContent = toRecord(redactSecrets(Projected))

\* without fields, and for a record with fields, the data is redacted
C17_RedactsRecordsAndWholeData ==
  (/\ ReadReturned /\ tool = "getApplication"
   /\ (args.fields = Undef \/ isRecord(Upstream))) =>
     C17_GetApplicationRedacts

C17_Witness ==
  /\ ReadReturned /\ tool = "getApplication"
  /\ args.showSecrets = Undef /\ args.fields # Undef
  /\ Upstream = Obj([name |-> Str("web"), api_key |-> Str("abc123"),
                     db_url |-> Str("postgres://user:pw@host/db")])
  /\ returned[1].structuredContent =
       Obj([name |-> Str("web"), api_key |-> Str(SECRET_MASK)])

(***************************************************************************)
(* C18: a log-exposing tool (getLogs, getDeployment, listDeployments,      *)
(* listAppDeployments) called with logMode = raw while the raw-logs flag   *)
(* is disabled ends with the raw-logs-disabled error and has issued no     *)
(* upstream request; a call with logMode = raw has a result only when the  *)
(* flag is enabled.                                                        *)
(***************************************************************************)
\* the call in progress is one of a log-exposing tool and asks for raw logs
RawLogsAsked == tool \in LogTools /\ args.logMode = Str("raw")

C18_RawLogsGated ==
  /\ (RawLogsAsked /\ ~allowUnsafeLogs) =>
        /\ pc = "done"
        /\ requests = <<>>
        /\ returned = <<>>
        /\ thrown = <<RawLogsDisabled>>
  /\ (RawLogsAsked /\ returned # <<>>) => allowUnsafeLogs

C18_Witness ==
  /\ ~allowUnsafeLogs
  /\ tool = "listAppDeployments"
  /\ args.logMode = Str("raw")
  /\ pc = "done"
  /\ thrown = <<RawLogsDisabled>>
  /\ requests = <<>>

(***************************************************************************)
(* C19: in safe and in strict mode redactLogString yields one line per     *)
(* input line; the line of an environment assignment is the marker         *)
(* [REDACTED LINE]; a line that no detector matches and that holds nothing *)
(* shaped like a credential is unchanged; a line that is a 40-character    *)
(* hex token is the marker in strict mode and unchanged in safe mode.      *)
(***************************************************************************)
HexChars == DigitChars \cup CharSet("abcdefABCDEF")

\* KEY=value: an identifier of two characters or more, =, a value without space
EnvAssignmentLine(line) ==
  \E e \in 3..(Len(line) - 1) :
    /\ CharAt(line, e) = "="
    /\ CharAt(line, 1) \in WordChars \ DigitChars
    /\ \A i \in 2..(e - 1) : CharAt(line, i) \in WordChars
    /\ \A i \in (e + 1)..Len(line) : CharAt(line, i) \notin SpaceChars

\* the line holds a mark of a credential: an assignment, a key with a colon,
\* a query, a URL with user info, a quoted field, a prefixed token, or an
\* option named after a secret
CredentialShaped(line) ==
  \/ CharSet(line) \cap {"=", ":", "?", "&", "@", "\"", "'", "_"} # {}
  \/ \E word \in {"token", "password", "secret", "api", "access", "private", "build-arg"} :
       includes(toLowerCase(line), "-" \o word)

LongHexLine(line) ==
  Len(line) = 40 /\ \A i \in 1..Len(line) : CharAt(line, i) \in HexChars

LogStringDone == fnOut # NoValue /\ fnIn.mode \in {"safe", "strict"}

InputLines == SplitLines(fnIn.input, 1)

OutputLines == SplitLines(fnOut.result, 1)

C19_ClassifiesPerLine ==
  LogStringDone =>
     /\ Len(OutputLines) = Len(InputLines)
     /\ \A i \in 1..Len(InputLines) :
          /\ EnvAssignmentLine(InputLines[i]) => OutputLines[i] = REDACTED_LINE
          /\ (~isSensitiveLogLine(InputLines[i], fnIn.mode)
                /\ ~CredentialShaped(InputLines[i])) =>
                OutputLines[i] = InputLines[i]
          /\ LongHexLine(InputLines[i]) =>
                OutputLines[i] = IF fnIn.mode = "strict" THEN REDACTED_LINE
                                 ELSE InputLines[i]

C19_Witness ==
  /\ LogStringDone
  /\ fnIn.mode = "safe"
  /\ fnIn.input = "DB_PASSWORD=supersecret123\r\n0123456789abcdef0123456789abcdef01234567"
  /\ EnvAssignmentLine(InputLines[1]) /\ LongHexLine(InputLines[2])
  /\ fnOut.result = "[REDACTED LINE]\n0123456789abcdef0123456789abcdef01234567"

(***************************************************************************)
(* C20: unless logMode = raw is asked with the raw-logs flag enabled, the  *)
(* result of getLogs holds the upstream log content only as redactLogString*)
(* leaves it, whether the payload is an object with a string logs, an      *)
(* object with an array logs, or a plain string.                           *)
(***************************************************************************)
LogsReturned == pc = "done" /\ tool \in LogTools /\ Len(returned) = 1

\* the upstream payload of getLogs with its log content redacted
RedactedLogs(data, mode) ==
  IF IsString(data) THEN Str(redactLogString(data.s, mode))
  ELSE IF isRecord(data) /\ "logs" \in DOMAIN data.o
  THEN Obj([data.o EXCEPT !.logs =
              IF IsString(@) THEN Str(redactLogString(@.s, mode))
              ELSE IF IsArray(@)
              THEN Arr([i \in 1..Len(@.a) |->
                          IF IsString(@.a[i])
                          THEN Str(redactLogString(@.a[i].s, mode))
                          ELSE @.a[i]])
              ELSE @])
  ELSE data

C20_LogsSanitized ==
  (LogsReturned /\ tool = "getLogs" /\ args.logMode # Str("raw")) =>
     returned[1].structuredContent =
        toRecord(RedactedLogs(Upstream, resolveLogMode(args.logMode)))

\* an object with a string logs is sanitized
C20_StringLogsSanitized ==
  (/\ LogsReturned /\ tool = "getLogs" /\ args.logMode # Str("raw")
   /\ isRecord(Upstream) /\ "logs" \in DOMAIN Upstream.o
   /\ IsString(Upstream.o.logs)) =>
     C20_LogsSanitized

C20_Witness ==
  /\ LogsReturned /\ tool = "getLogs"
  /\ args.logMode = Undef
  /\ ~allowUnsafeLogs
  /\ Upstream = Str(SecretLogText)
  /\ returned[1].structuredContent = Obj([data |-> Str(SecretLogText)])

(***************************************************************************)
(* C21: in the result of getDeployment, listDeployments and                *)
(* listAppDeployments, when includeLogs is not true the deployments hold   *)
(* no field, at any depth, whose key matches LOG_FIELD_PATTERN and a list  *)
(* result's meta has logsStripped = true; when includeLogs is true every   *)
(* field is kept, a log field's string is what redactLogString makes of it *)
(* in the resolved mode, and a list result's meta has logsStripped = false.*)
(***************************************************************************)
DeploymentTools == {"getDeployment", "listDeployments", "listAppDeployments"}

DeploymentListTools == {"listDeployments", "listAppDeployments"}

RECURSIVE HasLogField(_)
\* some field of the value, at some depth, has a key of a log field
HasLogField(value) ==
  IF IsArray(value) THEN \E i \in 1..Len(value.a) : HasLogField(value.a[i])
  ELSE IF isRecord(value)
  THEN \E key \in DOMAIN value.o : LogField(key) \/ HasLogField(value.o[key])
  ELSE FALSE

RECURSIVE KeptAndRedacted(_, _, _)
\* res has the fields of up, the strings of its log fields (a string, or the
\* strings of an array) redacted
KeptAndRedacted(up, res, mode) ==
  IF IsArray(up)
  THEN /\ IsArray(res) /\ Len(res.a) = Len(up.a)
       /\ \A i \in 1..Len(up.a) : KeptAndRedacted(up.a[i], res.a[i], mode)
  ELSE IF isRecord(up)
  THEN /\ isRecord(res) /\ DOMAIN res.o = DOMAIN up.o
       /\ \A key \in DOMAIN up.o :
            IF LogField(key) /\ IsString(up.o[key])
            THEN res.o[key] = Str(redactLogString(up.o[key].s, mode))
            ELSE IF LogField(key) /\ IsArray(up.o[key])
            THEN /\ IsArray(res.o[key]) /\ Len(res.o[key].a) = Len(up.o[key].a)
                 /\ \A i \in 1..Len(up.o[key].a) :
                      IF IsString(up.o[key].a[i])
                      THEN res.o[key].a[i] =
                             Str(redactLogString(up.o[key].a[i].s, mode))
                      ELSE KeptAndRedacted(up.o[key].a[i], res.o[key].a[i], mode)
            ELSE KeptAndRedacted(up.o[key], res.o[key], mode)
  ELSE res = up

\* the deployments the upstream answered with
UpstreamDeployments ==
  IF tool = "getDeployment" THEN Upstream
  ELSE Nullish(normalizeItems(Upstream), parseMaybeJson(Upstream))

\* the deployments of the result that has just been returned
ResultDeployments ==
  IF tool \in DeploymentListTools THEN ResultItems
  ELSE IF isRecord(Upstream) THEN returned[1].structuredContent
  ELSE Get(returned[1].structuredContent, "data")

DeploymentsReturned == LogsReturned /\ tool \in DeploymentTools

C21_LogsStrippedOrRedacted ==
  DeploymentsReturned =>
     IF args.includeLogs = Bool(TRUE)
     THEN /\ KeptAndRedacted(UpstreamDeployments, ResultDeployments,
                             resolveLogMode(args.logMode))
          /\ tool \in DeploymentListTools =>
               Get(ResultMeta, "logsStripped") = Bool(FALSE)
     ELSE /\ ~HasLogField(ResultDeployments)
          /\ tool \in DeploymentListTools =>
               Get(ResultMeta, "logsStripped") = Bool(TRUE)

\* it holds but for a listDeployments payload in which no items are found
C21_HoldsWhereItemsFound ==
  (DeploymentsReturned
     /\ ~(tool = "listDeployments" /\ ~Truthy(normalizeItems(Upstream)))) =>
     C21_LogsStrippedOrRedacted

C21_Witness ==
  /\ DeploymentsReturned /\ tool = "listDeployments"
  /\ args.includeLogs = Undef
  /\ Upstream = DeploymentRecord
  /\ returned[1].structuredContent =
       Obj([items |-> Obj([deployment_uuid |-> Str("d1"),
                           status |-> Str("finished"),
                           server |-> Obj([name |-> Str("s1")])])])

(***************************************************************************)
(* C22 as claimed: whenever an upstream reply without error carries a      *)
(* string that, leading whitespace dropped and case folded, starts with    *)
(* <!doctype html or <html, the invocation has ended with the              *)
(* authentication-failure error and no result.                             *)
(***************************************************************************)
HtmlMarkers == {"<!doctype html", "<html"}

\* the text starts, after its leading whitespace, with an HTML marker
StartsWithHtmlMarker(text) ==
  \E lead \in 0..Len(text) :
    /\ \A i \in 1..lead : CharAt(text, i) \in SpaceChars
    /\ \E marker \in HtmlMarkers :
         /\ lead + Len(marker) <= Len(text)
         /\ \A i \in 1..Len(marker) :
              LowerChar(CharAt(text, lead + i)) = CharAt(marker, i)

\* the i-th reply of the invocation is a response whose body is an HTML page
HtmlReply(i) ==
  /\ replies[i].settled = "fulfilled"
  /\ ~Truthy(replies[i].error)
  /\ IsString(replies[i].data)
  /\ StartsWithHtmlMarker(replies[i].data.s)

\* the invocation has ended at its i-th reply with the authentication failure
AuthenticationFailed(i) ==
  /\ i = Len(replies) /\ Len(requests) = i
  /\ pc = "done"
  /\ returned = <<>>
  /\ Len(thrown) = 1
  /\ thrown[1].name = "AuthenticationFailure"

C22_HtmlFailsTheCall ==
  \A i \in 1..Len(replies) : HtmlReply(i) => AuthenticationFailed(i)

(***************************************************************************)
(* C22 as amended: an HTML reply ends the invocation with the              *)
(* authentication-failure error and no result, except the reply to the     *)
(* update that upsertEnv tries on its non-array path: that failure is      *)
(* caught and the create is issued.  No result ever holds the HTML body.   *)
(***************************************************************************)
\* the i-th reply answers the update in the try block of upsertEnv
AnswersFallbackUpdate(i) == UpsertListedOther /\ i = 2

C22_HtmlFailsButFallbackUpdate ==
  /\ \A i \in 1..Len(replies) :
       HtmlReply(i) =>
         IF AnswersFallbackUpdate(i)
         THEN Len(requests) = 3 /\ requests[3].op = CreateOp
         ELSE AuthenticationFailed(i)
  /\ \A i \in 1..Len(replies) : \A n \in 1..Len(returned) :
       HtmlReply(i) => returned[n].structuredContent # toRecord(replies[i].data)

C22_Witness ==
  /\ tool = "listProjects"
  /\ Len(replies) = 1 /\ HtmlReply(1)
  /\ replies[1].data = Str("  \n<HTML><head></head></HTML>")
  /\ AuthenticationFailed(1)
  /\ startsWith(thrown[1].message, "listProjects: Authentication failed.")

(***************************************************************************)
(* C23 as claimed: whenever the upstream answers a call of the invocation  *)
(* with an error, the invocation has ended there with one error and no     *)
(* result; the error's message is the name of the operation, ": ", and the *)
(* error's message field if it has one, else the error in text (a string   *)
(* as it is, an object or array as JSON), else "API request failed".       *)
(***************************************************************************)
\* the i-th reply of the invocation reports a failure
ErrorReply(i) == replies[i].settled = "fulfilled" /\ Truthy(replies[i].error)

\* the name under which the i-th call of the invocation reports its errors
OperationName(i) ==
  IF tool # "upsertEnv" THEN tool
  ELSE IF requests[i].op = ListOp THEN "upsertEnv"
  ELSE IF requests[i].op = UpdateOp THEN "upsertEnv:update"
  ELSE "upsertEnv:create"

\* the text an upstream error is reported with
ErrorText(error) ==
  IF HasKey(error, "message") THEN ToStringJS(Get(error, "message"))
  ELSE IF IsString(error) THEN error.s
  ELSE IF error.t \in {"object", "array"} THEN JSONStringify(error)
  ELSE "API request failed"

\* the invocation has ended at its i-th reply with that reply's error
UpstreamErrorRaised(i) ==
  /\ i = Len(replies) /\ Len(requests) = i
  /\ pc = "done"
  /\ returned = <<>>
  /\ Len(thrown) = 1
  /\ thrown[1].message = OperationName(i) \o ": " \o ErrorText(replies[i].error)

C23_UpstreamErrorFailsTheCall ==
  \A i \in 1..Len(replies) : ErrorReply(i) => UpstreamErrorRaised(i)

(***************************************************************************)
(* C23 as amended: the same, except for the error that answers the update  *)
(* upsertEnv tries on its non-array path: that error is caught and the     *)
(* create is issued, whose outcome is the outcome of the invocation.       *)
(***************************************************************************)
C23_UpstreamErrorFailsButFallbackUpdate ==
  \A i \in 1..Len(replies) :
    ErrorReply(i) =>
      IF AnswersFallbackUpdate(i)
      THEN Len(requests) = 3 /\ requests[3].op = CreateOp
      ELSE UpstreamErrorRaised(i)

C23_Witness ==
  /\ tool = "deleteApplication"
  /\ Len(replies) = 1 /\ ErrorReply(1)
  /\ replies[1].error = Obj([message |-> Str("Unauthenticated.")])
  /\ pc = "done" /\ returned = <<>>
  /\ thrown = <<Err("UpstreamError", "deleteApplication: Unauthenticated.")>>

(***************************************************************************)
(* Configuration (src/src/config.ts): the flag of the write gate is        *)
(* computed from the environment when the process starts.  fnIn holds the  *)
(* value of the environment variable COOLIFY_ALLOW_WRITE, undefined when   *)
(* the variable is not set.                                                *)
(***************************************************************************)
\* what the operator may have put in the variable
EnvSettings == {Undef, Str("true"), Str("false"), Str("0"), Str("")}

\* COOLIFY_ALLOW_WRITE computed as process.env.COOLIFY_ALLOW_WRITE === 'true'
COOLIFY_ALLOW_WRITE_OptIn(value) == value = Str("true")

\* process.env.COOLIFY_ALLOW_WRITE !== 'false'
COOLIFY_ALLOW_WRITE(value) == value # Str("false")

InitConfig ==
  /\ fnIn \in EnvSettings
  /\ allowWrite = COOLIFY_ALLOW_WRITE(fnIn)
  /\ allowUnsafeLogs = FALSE
  /\ NoHost
  /\ pc = "idle"
  /\ tool = ""
  /\ args = NoArgs
  /\ at = "start"
  /\ locals = NoLocals
  /\ requests = <<>>
  /\ replies = <<>>
  /\ returned = <<>>
  /\ thrown = <<>>
  /\ fnOut = NoValue

SpecConfig == InitConfig /\ [][Next]_vars

(***************************************************************************)
(* C24 as claimed: unless COOLIFY_ALLOW_WRITE is set to "true", every      *)
(* invocation of a mutating tool has ended with the write-disabled error   *)
(* and no upstream request.                                                *)
(***************************************************************************)
\* the invocation was stopped by the write gate
RejectedByWriteGate ==
  /\ pc = "done"
  /\ requests = <<>>
  /\ returned = <<>>
  /\ thrown = <<WriteDisabled>>

C24_WritesDeniedUnlessEnabled ==
  (IsMutating(tool) /\ fnIn # Str("true")) => RejectedByWriteGate

(***************************************************************************)
(* C24 as amended: writes are allowed unless COOLIFY_ALLOW_WRITE is set to *)
(* "false".  With that value every invocation of a mutating tool is        *)
(* stopped by the write gate; with any other value, or with the variable   *)
(* not set, none is.                                                       *)
(***************************************************************************)
C24_WritesAllowedUnlessDisabled ==
  IsMutating(tool) => (RejectedByWriteGate <=> fnIn = Str("false"))

C24_Witness ==
  /\ fnIn = Undef
  /\ tool = "deleteApplication"
  /\ pc = "done"
  /\ Len(requests) = 1 /\ requests[1].op = "deleteApplicationByUuid"
  /\ Len(returned) = 1

(***************************************************************************)
(* C27: when a list tool returns and the upstream payload is an array, the *)
(* JSON text of an array, or an object whose items is an array, the        *)
(* result's items are an array made of those items: all of them when the   *)
(* call neither filters nor pages, and a reported total is their number    *)
(* when the call does not filter.  normalizeItems finds no items only in a *)
(* payload of none of these shapes.                                        *)
(***************************************************************************)
ListTools == {tl \in ReadTools : startsWith(tl, "list")}

\* the items of a list-shaped payload, null for any other payload
ListedItems(payload) ==
  IF IsArray(payload) THEN payload
  ELSE IF IsString(payload) /\ IsArray(parseMaybeJson(payload))
  THEN parseMaybeJson(payload)
  ELSE IF isRecord(payload) /\ IsArray(Get(payload, "items"))
  THEN Get(payload, "items")
  ELSE Null

\* the call asks for no filtering
Unfiltered == \A k \in {"type", "status"} \cap DOMAIN args : args[k] = Undef

\* the call asks for no paging
Unpaged == \A k \in {"limit", "offset"} \cap DOMAIN args : args[k] = Undef

ListReturned == ReadReturned /\ tool \in ListTools

C27_ListsAreNormalized ==
  ListReturned =>
     /\ (ListedItems(Upstream) # Null /\ Unfiltered) =>
          /\ IsArray(ResultItems)
          /\ Unpaged => Len(ResultItems.a) = Len(ListedItems(Upstream).a)
          /\ Get(ResultMeta, "total") \in
               {Undef, Num(Len(ListedItems(Upstream).a))}
     /\ normalizeItems(Upstream) = Null => ListedItems(Upstream) = Null

\* it holds of the tools that call normalizeItems
C27_NormalizingToolsNormalize ==
  (ListReturned /\ tool \in {"listResources", "listApplications",
                             "listDatabases", "listDeployments",
                             "listAppDeployments"}) =>
     C27_ListsAreNormalized

C27_Witness ==
  /\ ListReturned /\ tool = "listProjects"
  /\ isRecord(Upstream) /\ IsArray(Get(Upstream, "items"))
  /\ Len(Get(Upstream, "items").a) = 1
  /\ ResultItems = Arr(<<>>)
  /\ Get(ResultMeta, "total") = Num(0)

(***************************************************************************)
(* C28: paginate clamps its inputs instead of failing. A missing or        *)
(* negative offset counts as 0 and a limit below 1 counts as 1. With the   *)
(* limit omitted the page holds every item from the offset on, hasMore is  *)
(* false, total is the number of items before slicing, and the page        *)
(* reports no limit.                                                       *)
(***************************************************************************)
ClampedOffset ==
  IF fnIn.offset = Undef \/ fnIn.offset.n < 0 THEN 0 ELSE fnIn.offset.n

ClampedLimit == IF fnIn.limit.n < 1 THEN 1 ELSE fnIn.limit.n

ItemsFrom(items, first, count) ==
  [i \in 1..count |-> items[first + i]]

C28_PaginateClamps ==
  fnOut # NoValue =>
     LET N == Len(fnIn.items)
         page == fnOut.result
         rest == IF N > ClampedOffset THEN N - ClampedOffset ELSE 0
     IN /\ page.offset = ClampedOffset
        /\ page.total = N
        /\ IF fnIn.limit = Undef
           THEN /\ page.items = ItemsFrom(fnIn.items, ClampedOffset, rest)
                /\ page.hasMore = FALSE
                /\ page.limit = Undef
           ELSE /\ page.limit = Num(ClampedLimit)
                /\ page.items =
                     ItemsFrom(fnIn.items, ClampedOffset, Min(ClampedLimit, rest))

\* a negative offset and a limit of 0: the page is the first item alone
C28_Witness ==
  /\ fnOut # NoValue
  /\ fnIn.offset = Num(-1)
  /\ fnIn.limit = Num(0)
  /\ fnIn.items = <<Num(1), Num(2)>>
  /\ fnOut.result.items = <<Num(1)>>
  /\ fnOut.result.offset = 0
  /\ fnOut.result.limit = Num(1)
  /\ fnOut.result.hasMore = TRUE

\* the limit omitted and the offset missing: the whole list, no limit reported
C28_WitnessNoLimit ==
  /\ fnOut # NoValue
  /\ fnIn.offset = Undef
  /\ fnIn.limit = Undef
  /\ fnIn.items = <<Num(1), Num(2), Num(1)>>
  /\ fnOut.result.items = fnIn.items
  /\ fnOut.result.limit = Undef
  /\ fnOut.result.hasMore = FALSE

(***************************************************************************)
(* C30: whatever the upstream returns, every record item of the result of  *)
(* listPrivateKeys holds only keys of the allow-list id, uuid, name,       *)
(* description, is_git_related, each with the value the upstream record    *)
(* has under it, with pagination and without; key material and any other   *)
(* upstream field are dropped.                                             *)
(***************************************************************************)
PrivateKeyFields == {"id", "uuid", "name", "description", "is_git_related"}

PrivateKeysReturned == ReadReturned /\ tool = "listPrivateKeys"

\* the result item is what the allow-list leaves of the upstream record
ProjectionOf(item, source) ==
  /\ isRecord(source)
  /\ DOMAIN item.o = DOMAIN source.o \cap PrivateKeyFields
  /\ \A k \in DOMAIN item.o : item.o[k] = source.o[k]

C30_PrivateKeysProjected ==
  PrivateKeysReturned =>
     /\ IsArray(ResultItems)
     /\ \A i \in 1..Len(ResultItems.a) :
          isRecord(ResultItems.a[i]) =>
            /\ DOMAIN ResultItems.a[i].o \subseteq PrivateKeyFields
            /\ IsArray(Upstream)
            /\ \E j \in 1..Len(Upstream.a) :
                 ProjectionOf(ResultItems.a[i], Upstream.a[j])

\* a page cut from a list whose second record carries private_key
C30_Witness ==
  /\ PrivateKeysReturned
  /\ args.limit = Num(2) /\ args.offset = Num(1)
  /\ IsArray(Upstream) /\ Len(Upstream.a) = 2
  /\ HasKey(Upstream.a[2], "private_key")
  /\ ResultItems =
       Arr(<<Obj([id |-> Num(1), uuid |-> Str("u1"), name |-> Str("web")])>>)

\* the same record with no paging arguments
C30_WitnessUnpaged ==
  /\ PrivateKeysReturned
  /\ args.limit = Undef /\ args.offset = Undef
  /\ IsArray(Upstream) /\ Len(Upstream.a) = 3
  /\ HasKey(Upstream.a[1], "private_key")
  /\ ResultItems.a[1] =
       Obj([id |-> Num(1), uuid |-> Str("u1"), name |-> Str("web")])

(***************************************************************************)
(* Start-up (src/unnamed/part_001, the module body of index.ts): the       *)
(* version check, then the transports. `startup` holds the configuration   *)
(* read from the environment, the position of the module body and what it  *)
(* has done so far.                                                        *)
(***************************************************************************)
\* COOLIFY_STRICT_VERSION = process.env.COOLIFY_STRICT_VERSION === 'true'
COOLIFY_STRICT_VERSION(value) == value = Str("true")

\* MCP_TRANSPORT = process.env.MCP_TRANSPORT ?? 'stdio'
MCP_TRANSPORT(value) == Nullish(value, Str("stdio")).s

\* COOLIFY_OPENAPI_REF = process.env.COOLIFY_OPENAPI_REF ?? COOLIFY_VERSION
OpenApiRefs == {"4.0.0", "v4.0.0"}

TransportSettings ==
  {Undef, Str("stdio"), Str("http"), Str("both"), Str("sse"), Str("")}

\* value.replace(/^v/i, '')
normalizeVersion(value) ==
  IF Len(value) > 0 /\ CharAt(value, 1) \in {"v", "V"}
  THEN SubSeq(value, 2, Len(value))
  ELSE value

extractVersion(data) ==
  IF IsString(data) THEN data.s
  ELSE IF HasKey(data, "version") THEN ToStringJS(Get(data, "version"))
  ELSE "unknown"

\* what `await version()` may settle with: a rejection, or a result with an
\* error or with data
VersionResults ==
  {[threw |-> TRUE, error |-> Str("fetch failed"), data |-> Undef],
   [threw |-> FALSE, error |-> Obj([message |-> Str("Unauthenticated.")]),
    data |-> Undef]}
    \cup {[threw |-> FALSE, error |-> Undef, data |-> d] :
            d \in {Str("4.0.0"), Str("v4.0.0"), Str("V4.0.0"), Str("4.0.1"),
                   Str("v4.0.1"), Str("vv4.0.0"), Str("4.0.0\n"),
                   Obj([version |-> Str("v4.0.0")]),
                   Obj([version |-> Num(4)]), EmptyObject, Undef, Null}}

MismatchMessage(current, ref) ==
  "Coolify version mismatch. Server=" \o current \o ", OpenAPI=" \o ref \o "."

\* checkVersion() that warns where it should throw
checkVersionLenient(result, ref, strict) ==
  LET current == extractVersion(result.data)
  IN IF result.threw
     THEN [threw |-> FALSE,
           warnings |-> <<"Version check failed: " \o ToStringJS(result.error)>>]
     ELSE IF Truthy(result.error)
     THEN [threw |-> FALSE,
           warnings |-> <<"Version check failed: Failed to fetch version">>]
     ELSE IF normalizeVersion(current) # normalizeVersion(ref)
     THEN [threw |-> FALSE, warnings |-> <<MismatchMessage(current, ref)>>]
     ELSE [threw |-> FALSE, warnings |-> <<>>]

\* checkVersion() from the settling of `await version()` to its end: the
\* error it throws, or the warnings it logs
checkVersion(result, ref, strict) ==
  LET current == extractVersion(result.data)
      tried ==
        IF result.threw
        THEN [threw |-> TRUE, message |-> ToStringJS(result.error),
              warnings |-> <<>>]
        ELSE IF Truthy(result.error)
        THEN [threw |-> TRUE, message |-> "Failed to fetch version",
              warnings |-> <<>>]
        ELSE IF normalizeVersion(current) # normalizeVersion(ref)
        THEN IF strict
             THEN [threw |-> TRUE, message |-> MismatchMessage(current, ref),
                   warnings |-> <<>>]
             ELSE [threw |-> FALSE,
                   warnings |-> <<MismatchMessage(current, ref)>>]
        ELSE [threw |-> FALSE, warnings |-> <<>>]
  IN IF ~tried.threw THEN [threw |-> FALSE, warnings |-> tried.warnings]
     ELSE IF strict
     THEN [threw |-> TRUE, error |-> Err("Error", tried.message)]
     ELSE [threw |-> FALSE,
           warnings |-> <<"Version check failed: " \o tried.message>>]

InitStartup ==
  /\ allowWrite = TRUE
  /\ allowUnsafeLogs = FALSE
  /\ pc = "idle"
  /\ tool = ""
  /\ args = NoArgs
  /\ at = "start"
  /\ locals = NoLocals
  /\ requests = <<>>
  /\ replies = <<>>
  /\ returned = <<>>
  /\ thrown = <<>>
  /\ fnIn = NoValue
  /\ fnOut = NoValue
  /\ NoHttp
  /\ OneInvocation
  /\ \E strict \in EnvSettings, transport \in TransportSettings,
        ref \in OpenApiRefs :
       startup = [strict |-> COOLIFY_STRICT_VERSION(strict),
                  transport |-> MCP_TRANSPORT(transport),
                  ref |-> ref,
                  pc |-> "load",
                  result |-> NoValue,
                  warnings |-> <<>>,
                  started |-> {},
                  error |-> NoValue]

StartupStep(next) ==
  /\ startup' = next
  /\ UNCHANGED <<allowWrite, allowUnsafeLogs, callVars, fnIn, fnOut, httpVars,
                 invocationVars>>

\* await checkVersion(): from the entry of checkVersion to `await version()`
CallCheckVersion ==
  /\ startup.pc = "load"
  /\ StartupStep([startup EXCEPT !.pc = "version"])

\* checkVersion() from the settling of version() to its return or throw; a
\* throw rejects the module body
ResumeCheckVersion(result) ==
  /\ startup.pc = "version"
  /\ LET r == checkVersion(result, startup.ref, startup.strict)
     IN IF r.threw
        THEN StartupStep([startup EXCEPT !.pc = "aborted", !.result = result,
                                          !.error = r.error])
        ELSE StartupStep([startup EXCEPT !.pc = "checked", !.result = result,
                                          !.warnings = r.warnings])

\* the module body after `await checkVersion()`: startStdio() up to its
\* await of server.connect, startHttp() up to its return, both, or the throw
StartTransports ==
  /\ startup.pc = "checked"
  /\ IF startup.transport = "stdio"
     THEN StartupStep([startup EXCEPT !.pc = "connecting",
                                       !.started = {"stdio"}])
     ELSE IF startup.transport = "http"
     THEN StartupStep([startup EXCEPT !.pc = "running", !.started = {"http"}])
     ELSE IF startup.transport = "both"
     THEN StartupStep([startup EXCEPT !.pc = "connecting",
                                       !.started = {"stdio", "http"}])
     ELSE StartupStep([startup EXCEPT
                         !.pc = "aborted",
                         !.error = Err("Error", "Unknown MCP_TRANSPORT: "
                                                  \o startup.transport)])

\* server.connect(transport) of startStdio() settles
ResumeStartStdio ==
  /\ startup.pc = "connecting"
  /\ StartupStep([startup EXCEPT !.pc = "running"])

NextStartup ==
  \/ CallCheckVersion
  \/ \E result \in VersionResults : ResumeCheckVersion(result)
  \/ StartTransports
  \/ ResumeStartStdio

\* the module body resumes once checkVersion() has returned: nothing else
\* is scheduled before a transport is up. Whether version() ever settles is
\* the upstream's affair, so no fairness is assumed for it.
SpecStartup ==
  InitStartup /\ [][NextStartup]_vars /\ WF_vars(StartTransports)

(***************************************************************************)
(* C26: at start-up the version check completes before any transport is    *)
(* started. With COOLIFY_STRICT_VERSION enabled, a failed version fetch or *)
(* a version that differs from the OpenAPI reference once a leading v (of  *)
(* either case) is stripped from both aborts start-up and no transport     *)
(* ever starts; with it disabled the same conditions log one warning and   *)
(* the configured transport starts. An MCP_TRANSPORT other than stdio,     *)
(* http or both aborts start-up with no transport started.                 *)
(***************************************************************************)
VersionFetched == startup.result # NoValue

FetchFailed ==
  VersionFetched /\ (startup.result.threw \/ Truthy(startup.result.error))

WithoutLeadingV(text) ==
  IF startsWith(toLowerCase(text), "v") THEN SubSeq(text, 2, Len(text))
  ELSE text

VersionMismatch ==
  /\ VersionFetched /\ ~FetchFailed
  /\ WithoutLeadingV(extractVersion(startup.result.data))
       # WithoutLeadingV(startup.ref)

ConfiguredTransports ==
  CASE startup.transport = "stdio" -> {"stdio"}
    [] startup.transport = "http" -> {"http"}
    [] startup.transport = "both" -> {"stdio", "http"}
    [] OTHER -> {}

KnownTransport == ConfiguredTransports # {}

StartupGated ==
  /\ startup.started # {} =>
       (VersionFetched /\ startup.pc \in {"connecting", "running"})
  /\ (startup.strict /\ (FetchFailed \/ VersionMismatch)) =>
       (startup.pc = "aborted" /\ startup.started = {})
  /\ (~startup.strict /\ (FetchFailed \/ VersionMismatch)) =>
       /\ Len(startup.warnings) = 1
       /\ KnownTransport => startup.pc \in {"checked", "connecting", "running"}
  /\ startup.pc \in {"connecting", "running"} =>
       startup.started = ConfiguredTransports
  /\ (~KnownTransport /\ startup.pc \notin {"load", "version", "checked"}) =>
       (startup.pc = "aborted" /\ startup.started = {})

C26_VersionCheckGatesTransports ==
  /\ []StartupGated
  /\ (VersionFetched /\ startup.pc = "checked" /\ KnownTransport)
       ~> (startup.started = ConfiguredTransports /\ startup.started # {})

\* strict, the server reports v4.0.1 against the reference 4.0.0: aborted
C26_Witness ==
  /\ startup.strict
  /\ startup.ref = "4.0.0"
  /\ VersionFetched /\ startup.result.data = Str("v4.0.1")
  /\ VersionMismatch
  /\ startup.pc = "aborted"
  /\ startup.started = {}
  /\ startup.error =
       Err("Error", "Coolify version mismatch. Server=v4.0.1, OpenAPI=4.0.0.")

\* not strict, the fetch failed: one warning, then both transports
C26_WitnessLenient ==
  /\ ~startup.strict
  /\ FetchFailed
  /\ startup.warnings = <<"Version check failed: Failed to fetch version">>
  /\ startup.transport = "both"
  /\ startup.pc = "running"
  /\ startup.started = {"stdio", "http"}

\* the reference v4.0.0 against the reported V4.0.0: no mismatch, started
C26_WitnessStripped ==
  /\ startup.strict
  /\ startup.ref = "v4.0.0"
  /\ VersionFetched /\ startup.result.data = Str("V4.0.0")
  /\ startup.warnings = <<>>
  /\ startup.started = {"http"}

(***************************************************************************)
(* Overlapping invocations over HTTP (src/unnamed/part_001 lines 16-22 and *)
(* 64-81). One McpServer is shared by every POST /mcp; each POST makes a   *)
(* transport of its own, connects the shared server to it, and hands the   *)
(* request to it. JavaScript runs one handler at a time and changes        *)
(* handler only at an await: pc .. thrown hold the state of the invocation *)
(* `running`, `suspended` the state of the others.                         *)
(***************************************************************************)
\* the most POST requests in flight at once
MaxInvocations == 2

Invocations == 1..MaxInvocations

IdleCall ==
  [pc |-> "idle", tool |-> "", args |-> NoArgs, at |-> "start",
   locals |-> NoLocals, requests |-> <<>>, replies |-> <<>>,
   returned |-> <<>>, thrown |-> <<>>]

\* the handler state of invocation i
CallOf(i) ==
  IF i = running
  THEN [pc |-> pc, tool |-> tool, args |-> args, at |-> at, locals |-> locals,
        requests |-> requests, replies |-> replies, returned |-> returned,
        thrown |-> thrown]
  ELSE suspended[i]

\* a POST /mcp before its handler runs. `overlapped`: another invocation was
\* awaiting its upstream when this one was dispatched
NewPost == [stage |-> "none", captured |-> 0, sentOn |-> 0, closed |-> FALSE,
            delivered |-> FALSE, overlapped |-> FALSE]

\* an env var as the upstream stores it
StoredEnv(uuid, body) ==
  Obj([k \in {"uuid", "key", "value", "is_preview"} |->
         IF k = "uuid" THEN Str(uuid) ELSE Get(body, k)])

\* the upstream holds no variable with the key of the calls, or none at all
EnvStores ==
  {<<>>,
   <<StoredEnv("e0", Obj([key |-> Str("J"), value |-> Str("w"),
                          is_preview |-> Bool(FALSE)]))>>}

\* calls for one (application, key, is_preview): is_preview false by default
SameTripleArgs == {a \in UpsertArgs : a.is_preview # Bool(TRUE)}

InitOverlap ==
  /\ allowWrite = TRUE
  /\ allowUnsafeLogs = FALSE
  /\ pc = "idle"
  /\ tool = ""
  /\ args = NoArgs
  /\ at = "start"
  /\ locals = NoLocals
  /\ requests = <<>>
  /\ replies = <<>>
  /\ returned = <<>>
  /\ thrown = <<>>
  /\ fnIn = NoValue
  /\ fnOut = NoValue
  /\ startup = NoValue
  /\ replyRoute \in {"captured", "current"}
  /\ serverTransport = 0
  /\ posts = [i \in Invocations |-> NewPost]
  /\ running = 1
  /\ suspended = [i \in Invocations |-> IdleCall]
  /\ envStore \in EnvStores
  /\ answers = [i \in Invocations |-> <<>>]

\* the event loop runs the continuation of another invocation
Switch(j) ==
  /\ j # running
  /\ suspended' = [suspended EXCEPT ![running] = CallOf(running),
                                    ![j] = IdleCall]
  /\ running' = j
  /\ pc' = suspended[j].pc
  /\ tool' = suspended[j].tool
  /\ args' = suspended[j].args
  /\ at' = suspended[j].at
  /\ locals' = suspended[j].locals
  /\ requests' = suspended[j].requests
  /\ replies' = suspended[j].replies
  /\ returned' = suspended[j].returned
  /\ thrown' = suspended[j].thrown
  /\ UNCHANGED <<allowWrite, allowUnsafeLogs, fnIn, fnOut, startup, httpVars,
                 envStore, answers>>

HttpStep ==
  UNCHANGED <<allowWrite, allowUnsafeLogs, callVars, fnIn, fnOut, startup,
              replyRoute, invocationVars>>

\* app.post('/mcp') from its entry to `await server.connect(transport)`:
\* the shared server is now connected to the transport of this POST
PostConnect(i) ==
  /\ posts[i].stage = "none"
  /\ posts' = [posts EXCEPT ![i].stage = "connected"]
  /\ serverTransport' = i
  /\ HttpStep

\* transport.handleRequest(req, res, req.body): the transport hands the
\* message to the server, which notes the transport it is connected to and
\* schedules the tool handler
PostDispatch(i) ==
  /\ posts[i].stage = "connected"
  /\ posts' = [posts EXCEPT
                 ![i].stage = "dispatched",
                 ![i].captured = serverTransport,
                 ![i].overlapped =
                   \E k \in Invocations \ {i} : CallOf(k).pc = "awaiting"]
  /\ UNCHANGED serverTransport
  /\ HttpStep

\* the server sends the handler's result: on the transport noted at dispatch
\* or on the one it is connected to now, depending on the build
PostReply(i) ==
  /\ posts[i].stage = "dispatched"
  /\ CallOf(i).pc = "done"
  /\ LET target == IF replyRoute = "captured" THEN posts[i].captured
                   ELSE serverTransport
     IN posts' = [posts EXCEPT
                    ![i].stage = "replied",
                    ![i].sentOn = target,
                    ![i].delivered = (target = i /\ ~posts[i].closed)]
  /\ UNCHANGED serverTransport
  /\ HttpStep

\* res.on('close', () => transport.close()) once a response has been
\* written on the transport of POST i: closing a transport disconnects the
\* server, whichever transport it is connected to
ResClose(i) ==
  /\ ~posts[i].closed
  /\ \E k \in Invocations : posts[k].stage = "replied" /\ posts[k].sentOn = i
  /\ posts' = [posts EXCEPT ![i].closed = TRUE]
  /\ serverTransport' = 0
  /\ HttpStep

\* the tool handler of the running invocation starts once its request has
\* been dispatched
InvokeDispatched ==
  /\ posts[running].stage = "dispatched"
  /\ \E a \in SameTripleArgs : InvokeUpsertEnv(a)

\* the request the running invocation is waiting on, not yet answered
Pending ==
  /\ pc = "awaiting"
  /\ Len(answers[running]) < Len(requests)

\* a well-behaved upstream serves the pending request against its store
UpstreamServes ==
  /\ Pending
  /\ LET request == requests[Len(requests)]
         body == request.options.body
         uuid == "e" \o NatToString(Len(envStore) + 1)
         matches(env) ==
           /\ Get(env, "key") = Get(body, "key")
           /\ Get(env, "is_preview") = Get(body, "is_preview")
     IN CASE request.op = "listEnvsByApplicationUuid" ->
               /\ answers' = [answers EXCEPT ![running] =
                                Append(@, Fulfilled(Arr(envStore), Undef))]
               /\ UNCHANGED envStore
          [] request.op = "createEnvByApplicationUuid" ->
               /\ envStore' = Append(envStore, StoredEnv(uuid, body))
               /\ answers' = [answers EXCEPT ![running] =
                                Append(@, Fulfilled(Obj([uuid |-> Str(uuid)]),
                                                    Undef))]
          [] OTHER ->
               /\ envStore' =
                    [n \in 1..Len(envStore) |->
                       IF matches(envStore[n])
                       THEN StoredEnv(Get(envStore[n], "uuid").s, body)
                       ELSE envStore[n]]
               /\ answers' = [answers EXCEPT ![running] =
                                Append(@, Fulfilled(
                                            Obj([message |-> Str("updated")]),
                                            Undef))]
  /\ UNCHANGED <<allowWrite, allowUnsafeLogs, callVars, fnIn, fnOut, startup,
                 httpVars, running, suspended>>

\* the answer the running invocation resumes with
Answered == Len(answers[running]) = Len(replies) + 1

NextOverlap ==
  \/ \E j \in Invocations : Switch(j)
  \/ \E i \in Invocations : PostConnect(i)
  \/ \E i \in Invocations : PostDispatch(i)
  \/ InvokeDispatched
  \/ UpstreamServes
  \/ Answered /\ UpsertAfterList(answers[running][Len(replies) + 1])
  \/ Answered /\ UpsertAfterUpdate(answers[running][Len(replies) + 1])
  \/ Answered /\ UpsertAfterCreate(answers[running][Len(replies) + 1])
  \/ \E i \in Invocations : PostReply(i)
  \/ \E i \in Invocations : ResClose(i)

SpecOverlap == InitOverlap /\ [][NextOverlap]_vars

(***************************************************************************)
(* C29: upsertEnv never produces duplicate variables. From an upstream     *)
(* with no variable matching (application, key, is_preview) and answering  *)
(* every request against its store, any number of upsertEnv invocations    *)
(* for that triple, one after the other or with their list reads and       *)
(* writes interleaved, issue at most one create in total, and the upstream *)
(* never holds more than one matching variable.                            *)
(***************************************************************************)
\* the create calls invocation i has issued
CreatesOf(i) ==
  Cardinality({n \in 1..Len(CallOf(i).requests) :
                 CallOf(i).requests[n].op = "createEnvByApplicationUuid"})

RECURSIVE SumOver(_, _)
SumOver(f, domain) ==
  IF domain = {} THEN 0
  ELSE LET i == CHOOSE x \in domain : TRUE
       IN f[i] + SumOver(f, domain \ {i})

TotalCreates == SumOver([i \in Invocations |-> CreatesOf(i)], Invocations)

\* the stored variables with the key and is_preview of the calls
StoredMatches ==
  {n \in 1..Len(envStore) :
     /\ Get(envStore[n], "key") = Str("K")
     /\ Get(envStore[n], "is_preview") = Bool(FALSE)}

C29_UpsertCreatesOnce ==
  /\ TotalCreates <= 1
  /\ Cardinality(StoredMatches) <= 1

\* invocation i is between its list read and the end of its write
InFlight(i) == CallOf(i).pc = "awaiting"

NeverOverlapping ==
  \A i, j \in Invocations : (i # j /\ InFlight(i)) => ~InFlight(j)

\* invocations that never overlap create once: the later ones update
C29_SequentialUpsertsCreateOnce ==
  ([]NeverOverlapping) => []C29_UpsertCreatesOnce

\* both invocations read the empty list before either wrote: two creates
C29_Witness ==
  /\ \A i \in Invocations :
       /\ CallOf(i).pc = "done"
       /\ Len(CallOf(i).replies) = 2
       /\ CallOf(i).replies[1].data = Arr(<<>>)
       /\ CreatesOf(i) = 1
       /\ Len(CallOf(i).returned) = 1
  /\ Cardinality(StoredMatches) = 2

\* one after the other: the first creates, the second updates
C29_WitnessSequential ==
  /\ \A i \in Invocations : CallOf(i).pc = "done"
  /\ TotalCreates = 1
  /\ Cardinality(StoredMatches) = 1
  /\ \E i \in Invocations :
       CallOf(i).requests[2].op = "updateEnvByApplicationUuid"

(***************************************************************************)
(* C25: concurrent tool invocations are independent. A slow or hanging     *)
(* upstream call blocks only the invocation awaiting it; an invocation     *)
(* dispatched over another POST /mcp while it is in flight still completes *)
(* and its reply is delivered on the channel that issued it; the handlers  *)
(* share no mutable state.                                                 *)
(***************************************************************************)
\* the reply of POST i went out on the transport of POST i, still open
DeliveredToIssuer(i) == posts[i].stage = "replied" => posts[i].delivered

C25_RepliesReachTheirIssuer ==
  \A i \in Invocations : posts[i].overlapped => DeliveredToIssuer(i)

\* a build that sends on the transport noted at dispatch misdelivers too
C25_CapturedRouteDelivers ==
  replyRoute = "captured" => C25_RepliesReachTheirIssuer

\* and so does a build that sends on the transport connected at reply time
C25_CurrentRouteDelivers ==
  replyRoute = "current" => C25_RepliesReachTheirIssuer

\* a step of one handler leaves the handler state of the others alone
C25_HandlersKeepToThemselves ==
  [][\A i \in Invocations : i # running => CallOf(i)' = CallOf(i)]_vars

\* POST 2 was dispatched while the upstream call of POST 1 was in flight and
\* has completed, yet its reply went out on the transport of POST 1
C25_Witness ==
  /\ posts[2].overlapped
  /\ CallOf(2).pc = "done" /\ Len(CallOf(2).returned) = 1
  /\ posts[2].stage = "replied"
  /\ posts[2].sentOn = 1
  /\ ~posts[2].delivered

\* the upstream call of POST 1 hangs; POST 2, dispatched meanwhile, has run
\* to completion
C25_WitnessHangBlocksOne ==
  /\ CallOf(1).pc = "awaiting" /\ answers[1] = <<>>
  /\ posts[2].overlapped
  /\ CallOf(2).pc = "done" /\ Len(CallOf(2).returned) = 1
====
